---- MODULE Spec2Model ----
(***************************************************************************)
(* gitdocify: the codebase analyzer (src/src/analyzer.py) and the key-file *)
(* selection of the documentation generator (src/src/generator.py).        *)
(*                                                                         *)
(* Python strings are sequences of one-character strings, so that          *)
(* substring tests, lower-casing, splitting and pattern matching are       *)
(* computed character by character, as the code computes them.             *)
(***************************************************************************)
EXTENDS Integers, Sequences, FiniteSets, TLC

VARIABLES
    \* DocumentationGenerator._get_key_files
    kpc,          \* position of the caller: "start", "returned", "again"
    files_arg,    \* the argument `files`
    key_files,    \* the list returned by the call
    key_again,    \* the list returned when the result is passed back in
    \* CodebaseAnalyzer._analyze_python_file
    ppc,          \* "start", "returned"
    content,      \* the argument `content`
    info,         \* the dict returned
    \* CodebaseAnalyzer
    apc,              \* position of the caller of the analyzer
    exclude_arg,      \* the argument exclude_patterns of __init__
    include_tests,    \* self.include_tests
    exclude_patterns, \* self.exclude_patterns
    spec,             \* self.spec: the compiled patterns
    mpath,            \* the relative path handed to self.spec.match_file
    matched,          \* what match_file returned
    \* the file system below self.root_path
    fs_files,         \* the regular files
    fs_perm,          \* the directories whose permission bits deny something
    \* the dict that analyze() builds
    project_info,     \* analysis['project_info']
    structure,        \* analysis['structure']
    analysis_files,   \* analysis['files']
    \* the calls of analyze() that read the root directory only
    rpc,              \* "start", "dependencies", "readme", "config_files"
    root_entries,     \* the files in and just below the root directory
    dependencies,     \* analysis['dependencies']
    readme,           \* analysis['readme']
    config_files,     \* analysis['config_files']
    \* DocumentationGenerator.generate_documentation
    gpc,              \* the section step to run next; 8 the join, 9 returned
    gen_analysis,     \* the argument `analysis`
    sections,         \* the list `sections`
    total_tokens,     \* self.total_tokens
    api_calls,        \* the calls the API has received, with their outcome
    documentation     \* the string returned

keyVars == <<kpc, files_arg, key_files, key_again>>
pyVars  == <<ppc, content, info>>
initVars == <<exclude_arg, include_tests, exclude_patterns, spec>>
matchVars == <<mpath, matched>>
fsVars == <<fs_files, fs_perm>>
analysisVars == <<project_info, structure, analysis_files>>
rootVars == <<rpc, root_entries, dependencies, readme, config_files>>
genVars == <<gpc, gen_analysis, sections, total_tokens, api_calls,
             documentation>>
restVars == <<rootVars, genVars>>
vars    == <<kpc, files_arg, key_files, key_again, ppc, content, info,
             apc, exclude_arg, include_tests, exclude_patterns, spec,
             mpath, matched, fs_files, fs_perm,
             project_info, structure, analysis_files,
             rpc, root_entries, dependencies, readme, config_files,
             gpc, gen_analysis, sections, total_tokens, api_calls,
             documentation>>

(***************************************************************************)
(* Bounds of the model.                                                    *)
(***************************************************************************)
MaxKeyInput == 3      \* longest `files` list handed to _get_key_files
MaxLines    == 3      \* most lines of a Python file content
MaxUser     == 2      \* most user-supplied exclusion patterns
MaxFiles    == 2      \* most regular files below the root
MaxRootFiles == 2     \* most entries of the root directory
MaxUsage    == 2      \* largest usage.total_tokens of one response

(***************************************************************************)
(* Strings.                                                                *)
(***************************************************************************)
Upper == <<"A","B","C","D","E","F","G","H","I","J","K","L","M",
           "N","O","P","Q","R","S","T","U","V","W","X","Y","Z">>
Lower == <<"a","b","c","d","e","f","g","h","i","j","k","l","m",
           "n","o","p","q","r","s","t","u","v","w","x","y","z">>

\* str.lower() on one character
LowerChar(c) ==
    IF \E i \in 1..26 : Upper[i] = c
    THEN Lower[CHOOSE i \in 1..26 : Upper[i] = c]
    ELSE c

\* str.lower()
lower(s) == [i \in 1..Len(s) |-> LowerChar(s[i])]

\* `needle in hay` on strings
Contains(hay, needle) ==
    \E i \in 0..(Len(hay) - Len(needle)) :
        SubSeq(hay, i + 1, i + Len(needle)) = needle

\* dict.get(key, default)
Get(d, key, default) == IF key \in DOMAIN d THEN d[key] ELSE default

\* the elements of a sequence
Range(s) == {s[i] : i \in 1..Len(s)}

\* concatenation of a sequence of sequences
RECURSIVE Flatten(_)
Flatten(ss) == IF ss = << >> THEN << >> ELSE Head(ss) \o Flatten(Tail(ss))

(***************************************************************************)
(* DocumentationGenerator._get_key_files  (generator.py 316-343)           *)
(***************************************************************************)
\* the substrings of the eight name predicates, in the order of `priorities`
PriorityNames ==
    << <<"m","a","i","n">>,                        \* 'main'
       <<"a","p","p">>,                            \* 'app'
       <<"s","e","r","v","e","r">>,                \* 'server'
       <<"c","l","i","e","n","t">>,                \* 'client'
       <<"a","p","i">>,                            \* 'api'
       <<"m","o","d","e","l">>,                    \* 'model'
       <<"c","o","n","t","r","o","l","l","e","r">>,\* 'controller'
       <<"s","e","r","v","i","c","e">> >>          \* 'service'

NumPriorities == 10

\* priorities[i](f): the truth value of the i-th lambda on record f
priority_func(i, f) ==
    IF i <= 8 THEN Contains(lower(f["name"]), PriorityNames[i])
    ELSE IF i = 9 THEN Get(f, "classes", << >>) # << >>
    ELSE Get(f, "functions", << >>) # << >>

\* a plausible slip: the matching files taken back to front
matching_reversed(i, files) ==
    LET m == SelectSeq(files, LAMBDA f : priority_func(i, f))
    IN  [k \in 1..Len(m) |-> m[Len(m) + 1 - k]]

\* [f for f in files if priority_func(f)]
matching_files(i, files) == SelectSeq(files, LAMBDA f : priority_func(i, f))

\* seen = set(); [f for f in key_files if f['path'] not in seen and not seen.add(f['path'])]
RECURSIVE DedupFrom(_, _)
DedupFrom(fs, seen) ==
    IF fs = << >> THEN << >>
    ELSE IF Head(fs)["path"] \in seen THEN DedupFrom(Tail(fs), seen)
    ELSE <<Head(fs)>> \o DedupFrom(Tail(fs), seen \cup {Head(fs)["path"]})

\* a plausible slip: the de-duplication left out
KeepAll(fs) == fs

remove_duplicates(fs) == DedupFrom(fs, {})

\* the body of `for priority_func in priorities`, from the i-th lambda on;
\* key_files after one pass is a value handed to the next pass
RECURSIVE KeyLoop(_, _, _)
KeyLoop(files, acc, i) ==
    IF i > NumPriorities THEN acc
    ELSE CHOOSE result \in
             {KeyLoop(files, deduplicated, i + 1) :
                 deduplicated \in
                     {remove_duplicates(acc \o matching_files(i, files))}} : TRUE

_get_key_files(files) == KeyLoop(files, << >>, 1)

\* File records as _analyze_file builds them: 'classes' and 'functions' exist
\* only for the Python and JS/TS families.
KeyPool ==
    { [path |-> <<"m","a","i","n",".","p","y">>,
       name |-> <<"m","a","i","n",".","p","y">>,                      \* 'main.py'
       classes |-> << >>, functions |-> << >>],
      [path |-> <<"M","a","i","n",".","j","a","v","a">>,
       name |-> <<"M","a","i","n",".","j","a","v","a">>],             \* 'Main.java'
      [path |-> <<"w","e","b","a","p","p",".","p","y">>,
       name |-> <<"w","e","b","a","p","p",".","p","y">>,              \* 'webapp.py'
       classes |-> << <<"F","o","o">> >>, functions |-> << <<"f">> >>],
      [path |-> <<"d","o","m","a","i","n","_","a","p","p",".","p","y">>,
       name |-> <<"d","o","m","a","i","n","_","a","p","p",".","p","y">>, \* 'domain_app.py'
       classes |-> << >>, functions |-> << <<"f">> >>],
      [path |-> <<"u","t","i","l","s",".","p","y">>,
       name |-> <<"u","t","i","l","s",".","p","y">>,                  \* 'utils.py'
       classes |-> << <<"F","o","o">> >>, functions |-> << >>],
      [path |-> <<"h","e","l","p","e","r","s",".","j","s">>,
       name |-> <<"h","e","l","p","e","r","s",".","j","s">>,          \* 'helpers.js'
       classes |-> << >>, functions |-> << <<"h">> >>],
      [path |-> <<"R","E","A","D","M","E",".","m","d">>,
       name |-> <<"R","E","A","D","M","E",".","m","d">>],             \* 'README.md'
      [path |-> <<"s","e","r","v","i","c","e","_","a","p","i",".","t","s">>,
       name |-> <<"s","e","r","v","i","c","e","_","a","p","i",".","t","s">>, \* 'service_api.ts'
       classes |-> << >>, functions |-> << >>] }

\* lists of at most n records with pairwise different paths (rglob yields a
\* file once)
DistinctSeqs(S, n) ==
    {s \in UNION {[1..k -> S] : k \in 0..n} :
        \A i, j \in DOMAIN s : i # j => s[i]["path"] # s[j]["path"]}

KeyIdle ==
    /\ kpc = "idle" /\ files_arg = << >> /\ key_files = << >> /\ key_again = << >>

KeyInit ==
    /\ kpc = "start"
    /\ files_arg \in DistinctSeqs(KeyPool, MaxKeyInput)
    /\ key_files = << >>
    /\ key_again = << >>

\* key_files = self._get_key_files(files)
CallGetKeyFiles ==
    /\ kpc = "start"
    /\ key_files' = _get_key_files(files_arg)
    /\ kpc' = "returned"
    /\ UNCHANGED <<files_arg, key_again>>

\* the result passed back in: self._get_key_files(key_files)
CallGetKeyFilesAgain ==
    /\ kpc = "returned"
    /\ key_again' = _get_key_files(key_files)
    /\ kpc' = "again"
    /\ UNCHANGED <<files_arg, key_files>>

PyIdle == ppc = "idle" /\ content = << >> /\ info = << >>

analyzerVars == <<apc, initVars, matchVars, fsVars, analysisVars>>

AnalysisIdle ==
    /\ fs_files = {} /\ fs_perm = {}
    /\ project_info = << >> /\ structure = << >> /\ analysis_files = << >>

RootIdle ==
    /\ rpc = "idle" /\ root_entries = {} /\ dependencies = << >>
    /\ readme = << >> /\ config_files = << >>

GenIdle ==
    /\ gpc = 0 /\ gen_analysis = << >> /\ sections = << >>
    /\ total_tokens = 0 /\ api_calls = << >> /\ documentation = << >>

RestIdle == RootIdle /\ GenIdle

AnalyzerIdle ==
    /\ apc = "idle" /\ exclude_arg = << >> /\ include_tests = FALSE
    /\ exclude_patterns = << >> /\ spec = << >>
    /\ mpath = << >> /\ matched = FALSE
    /\ AnalysisIdle

KeyNext ==
    \/ CallGetKeyFiles /\ UNCHANGED <<pyVars, analyzerVars, restVars>>
    \/ CallGetKeyFilesAgain /\ UNCHANGED <<pyVars, analyzerVars, restVars>>

InitKey == KeyInit /\ PyIdle /\ AnalyzerIdle /\ RestIdle

SpecKey == InitKey /\ [][KeyNext]_vars

\* the first predicate of the cascade a record matches, 0 when it matches none
FirstPriority(f) ==
    IF \E i \in 1..NumPriorities : priority_func(i, f)
    THEN CHOOSE i \in 1..NumPriorities :
            priority_func(i, f) /\ \A j \in 1..(i - 1) : ~priority_func(j, f)
    ELSE 0

\* the records whose first matching predicate is the i-th, in input order
PriorityGroup(files, i) == SelectSeq(files, LAMBDA f : FirstPriority(f) = i)

OnlyHasClasses(f) == FirstPriority(f) = 9
MainWithoutDeclarations(f) ==
    /\ priority_func(1, f) /\ ~priority_func(9, f) /\ ~priority_func(10, f)

\* C1: _get_key_files returns the concatenation, over the ten predicates in
\* their fixed order, of the input files whose first matching predicate it is,
\* each group in input order; no path occurs twice, a file matching no
\* predicate is absent, and a file named like 'main' without classes or
\* functions precedes every file that matches only the has-classes predicate.
C1_KeyFilesCascade ==
    kpc # "start" =>
      /\ key_files =
            Flatten([i \in 1..NumPriorities |-> PriorityGroup(files_arg, i)])
      /\ \A i, j \in 1..Len(key_files) :
            i # j => key_files[i]["path"] # key_files[j]["path"]
      /\ \A f \in Range(files_arg) :
            FirstPriority(f) = 0 => f \notin Range(key_files)
      /\ \A i, j \in 1..Len(key_files) :
            MainWithoutDeclarations(key_files[i]) /\ OnlyHasClasses(key_files[j])
              => i < j

\* a call whose input lists a classes-only file before a bare 'main' file and
\* a file matching two name predicates, and a file matching no predicate
C1_Witness ==
    /\ kpc = "returned"
    /\ \E i, j \in 1..Len(files_arg) :
          /\ i < j
          /\ OnlyHasClasses(files_arg[i])
          /\ MainWithoutDeclarations(files_arg[j])
    /\ \E f \in Range(files_arg) : FirstPriority(f) = 0
    /\ Len(key_files) = 2

\* a call that meets a record matching several predicates
C1_WitnessDuplicate ==
    /\ kpc = "returned"
    /\ \E f \in Range(files_arg) : priority_func(1, f) /\ priority_func(2, f)

\* C2: passing the result of _get_key_files back in returns it unchanged
\* (select(select(F)) = select(F)).
C2_KeyFilesIdempotent == kpc = "again" => key_again = key_files

\* a second call on a result that holds several groups, one of two records
C2_Witness ==
    /\ kpc = "again"
    /\ Len(key_files) = 3
    /\ \E i \in 1..NumPriorities : Len(PriorityGroup(files_arg, i)) = 2

(***************************************************************************)
(* CodebaseAnalyzer._analyze_python_file  (analyzer.py 226-249)            *)
(***************************************************************************)
NL == "\n"

\* \s of the re module, on the characters of the model
IsSpace(c) == c \in {" ", NL, "\t"}

\* \w of the re module
IsWord(c) ==
    \/ \E i \in 1..26 : c = Upper[i] \/ c = Lower[i]
    \/ c \in {"0","1","2","3","4","5","6","7","8","9","_"}

\* s[p:].startswith(lit)
StartsWithAt(s, p, lit) ==
    /\ p + Len(lit) - 1 <= Len(s)
    /\ SubSeq(s, p, p + Len(lit) - 1) = lit

\* the position after the longest run of \s characters that starts at p
RECURSIVE SpaceRunEnd(_, _)
SpaceRunEnd(s, p) ==
    IF p <= Len(s) /\ IsSpace(s[p]) THEN SpaceRunEnd(s, p + 1) ELSE p

\* the position after the longest run of \S characters that starts at p
RECURSIVE NonSpaceRunEnd(_, _)
NonSpaceRunEnd(s, p) ==
    IF p <= Len(s) /\ ~IsSpace(s[p]) THEN NonSpaceRunEnd(s, p + 1) ELSE p

\* the position after the longest run of \w characters that starts at p
RECURSIVE WordRunEnd(_, _)
WordRunEnd(s, p) ==
    IF p <= Len(s) /\ IsWord(s[p]) THEN WordRunEnd(s, p + 1) ELSE p

\* the position of the first newline at or after p, Len(s) + 1 without one
RECURSIVE LineEnd(_, _)
LineEnd(s, p) ==
    IF p <= Len(s) /\ s[p] # NL THEN LineEnd(s, p + 1) ELSE p

\* a plausible slip: the pattern written without its ^ anchor
AnyPosition(s, p) == TRUE

\* ^ under re.MULTILINE: the start of the string or just after a newline
IsLineStart(s, p) == p = 1 \/ s[p - 1] = NL

\* ^kw\s+(\w+) tried at position p: whether it matches, group 1, and the
\* position after the match
MatchDecl(s, p, kw) ==
    LET a == p + Len(kw)
        b == SpaceRunEnd(s, a)
        c == WordRunEnd(s, b)
    IN  [ok   |-> IsLineStart(s, p) /\ StartsWithAt(s, p, kw) /\ b > a /\ c > b,
         group |-> SubSeq(s, b, c - 1),
         end  |-> c]

\* re.findall(r'^kw\s+(\w+)', content, re.MULTILINE), scanning from pos
RECURSIVE FindDecls(_, _, _)
FindDecls(s, pos, kw) ==
    LET starts == {p \in pos..Len(s) : MatchDecl(s, p, kw).ok}
    IN  IF starts = {} THEN << >>
        ELSE LET p == CHOOSE q \in starts : \A r \in starts : q <= r
                 m == MatchDecl(s, p, kw)
             IN  <<m.group>> \o FindDecls(s, m.end, kw)

kw_class  == <<"c","l","a","s","s">>
kw_def    == <<"d","e","f">>
kw_import == <<"i","m","p","o","r","t">>
kw_from   == <<"f","r","o","m">>

\* import\s+(.+)$ tried at position r: \s+ is greedy and gives characters
\* back until (.+) finds a character that is not a newline; (.+) then runs to
\* the end of that line, where $ matches
MatchImportTail(s, r) ==
    LET a  == r + Len(kw_import)
        b  == SpaceRunEnd(s, a)
        qs == {q \in (a + 1)..b : q <= Len(s) /\ s[q] # NL}
        q  == CHOOSE x \in qs : \A y \in qs : y <= x
    IN  IF StartsWithAt(s, r, kw_import) /\ qs # {}
        THEN [ok |-> TRUE, group |-> SubSeq(s, q, LineEnd(s, q) - 1),
              end |-> LineEnd(s, q)]
        ELSE [ok |-> FALSE, group |-> << >>, end |-> r]

\* ^(?:from\s+\S+\s+)?import\s+(.+)$ tried at position p
MatchImport(s, p) ==
    LET a == p + Len(kw_from)
        b == SpaceRunEnd(s, a)
        c == NonSpaceRunEnd(s, b)
        d == SpaceRunEnd(s, c)
        withFrom == IF StartsWithAt(s, p, kw_from) /\ b > a /\ c > b /\ d > c
                    THEN MatchImportTail(s, d)
                    ELSE [ok |-> FALSE, group |-> << >>, end |-> p]
        bare == MatchImportTail(s, p)
    IN  IF ~IsLineStart(s, p) THEN [ok |-> FALSE, group |-> << >>, end |-> p]
        ELSE IF withFrom.ok THEN withFrom ELSE bare

\* re.findall(r'^(?:from\s+\S+\s+)?import\s+(.+)$', content, re.MULTILINE)
RECURSIVE FindImports(_, _)
FindImports(s, pos) ==
    LET starts == {p \in pos..Len(s) : MatchImport(s, p).ok}
    IN  IF starts = {} THEN << >>
        ELSE LET p == CHOOSE q \in starts : \A r \in starts : q <= r
                 m == MatchImport(s, p)
             IN  <<m.group>> \o FindImports(s, m.end)

\* str.strip()
RECURSIVE strip(_)
strip(s) ==
    IF s = << >> THEN s
    ELSE IF IsSpace(Head(s)) THEN strip(Tail(s))
    ELSE IF IsSpace(s[Len(s)]) THEN strip(SubSeq(s, 1, Len(s) - 1))
    ELSE s

\* the keywords of the test check, in the order of the list
TestKeywords ==
    << <<"t","e","s","t">>,                   \* 'test'
       <<"a","s","s","e","r","t">>,           \* 'assert'
       <<"u","n","i","t","t","e","s","t">>,   \* 'unittest'
       <<"p","y","t","e","s","t">> >>         \* 'pytest'

\* a plausible slip: the keywords looked up in the content as written
HasTestKeywordCaseSensitive(c) ==
    \E k \in 1..Len(TestKeywords) : Contains(c, TestKeywords[k])

\* any(keyword in content.lower() for keyword in [...])
HasTestKeyword(c) ==
    \E k \in 1..Len(TestKeywords) : Contains(lower(c), TestKeywords[k])

_analyze_python_file(c) ==
    LET imports == FindImports(c, 1)
    IN  [type      |-> IF HasTestKeyword(c) THEN "test" ELSE "source",
         imports   |-> [i \in 1..Len(imports) |-> strip(imports[i])],
         classes   |-> FindDecls(c, 1, kw_class),
         functions |-> FindDecls(c, 1, kw_def)]

\* lines that Python file contents are put together from
PyLines ==
    << <<"c","l","a","s","s"," ","F","o","o",":">>,               \* 'class Foo:'
       <<" "," "," "," ","d","e","f"," ","b","a","r","(","s","e","l","f",")",":">>,
                                                                  \* '    def bar(self):'
       <<" "," "," "," "," "," "," "," ","p","a","s","s">>,       \* '        pass'
       <<"d","e","f"," ","b","a","z","(",")",":">>,               \* 'def baz():'
       <<"i","m","p","o","r","t"," ","p","y","t","e","s","t">>,   \* 'import pytest'
       <<"x"," ","="," ","A","s","s","e","r","t">>,               \* 'x = Assert'
       <<"f","r","o","m"," ","o","s"," ","i","m","p","o","r","t"," ","p","a","t","h">>,
                                                                  \* 'from os import path'
       <<"c","l","a","s","s">> >>                                 \* 'class'

\* the lines, each ended by a newline
JoinLines(ls) == Flatten([i \in 1..Len(ls) |-> PyLines[ls[i]] \o <<NL>>])

PyContents ==
    {JoinLines(ls) : ls \in UNION {[1..k -> 1..Len(PyLines)] : k \in 0..MaxLines}}

PyInit == ppc = "start" /\ content \in PyContents /\ info = << >>

\* info = self._analyze_python_file(content)
CallAnalyzePythonFile ==
    /\ ppc = "start"
    /\ info' = _analyze_python_file(content)
    /\ ppc' = "returned"
    /\ UNCHANGED content

PyNext ==
    CallAnalyzePythonFile /\ UNCHANGED <<keyVars, analyzerVars, restVars>>

InitPy == PyInit /\ KeyIdle /\ AnalyzerIdle /\ RestIdle

SpecPy == InitPy /\ [][PyNext]_vars

\* "class Foo:\n    def bar(self):\n        pass\n"
ClassWithMethod == JoinLines(<<1, 2, 3>>)

\* the names that follow keyword kw at the start of some line of s
DeclaredAtLineStart(s, kw) ==
    {SubSeq(s, SpaceRunEnd(s, p + Len(kw)),
               WordRunEnd(s, SpaceRunEnd(s, p + Len(kw))) - 1) :
        p \in {q \in 1..Len(s) :
                 /\ q = 1 \/ s[q - 1] = NL
                 /\ StartsWithAt(s, q, kw)
                 /\ SpaceRunEnd(s, q + Len(kw)) > q + Len(kw)}}

\* C7 as stated: for a class with an indented method the extraction yields
\* classes = ['Foo'] and functions = ['bar'].
C7_MethodReported ==
    (ppc = "returned" /\ content = ClassWithMethod) =>
        /\ info.classes = << <<"F","o","o">> >>
        /\ info.functions = << <<"b","a","r">> >>

\* C7 amended: only a class or def keyword at the very start of a line is
\* reported, so an indented method is not: the class with a method yields
\* classes = ['Foo'] and functions = [], and every reported name follows its
\* keyword at the start of a line.
C7_LineStartOnly ==
    ppc = "returned" =>
        /\ content = ClassWithMethod =>
              /\ info.classes = << <<"F","o","o">> >>
              /\ info.functions = << >>
        /\ Range(info.classes) \subseteq DeclaredAtLineStart(content, kw_class)
        /\ Range(info.functions) \subseteq DeclaredAtLineStart(content, kw_def)
        /\ DeclaredAtLineStart(content, kw_def) = {} => info.functions = << >>

\* the extraction has run on the class with an indented method
C7_Witness == ppc = "returned" /\ content = ClassWithMethod

\* C8: the classification is 'test' exactly when the lower-cased content
\* holds one of test, assert, unittest, pytest, whatever was extracted, and
\* 'source' otherwise.
C8_TestClassification ==
    ppc = "returned" =>
        LET low == lower(content)
            hit == \/ Contains(low, <<"t","e","s","t">>)
                   \/ Contains(low, <<"a","s","s","e","r","t">>)
                   \/ Contains(low, <<"u","n","i","t","t","e","s","t">>)
                   \/ Contains(low, <<"p","y","t","e","s","t">>)
        IN  /\ hit => info.type = "test"
            /\ ~hit => info.type = "source"

\* a content classified 'test' by a keyword in capitals, with no class and no
\* function extracted
C8_Witness ==
    /\ ppc = "returned"
    /\ info.type = "test"
    /\ info.classes = << >> /\ info.functions = << >>
    /\ ~Contains(content, <<"t","e","s","t">>)
    /\ Contains(content, <<"A","s","s","e","r","t">>)

\* a content classified 'source' although a class and a function were found
C8_WitnessSource ==
    /\ ppc = "returned"
    /\ info.type = "source"
    /\ info.classes # << >> /\ info.functions # << >>

(***************************************************************************)
(* The exclusion rules: CodebaseAnalyzer.__init__ (analyzer.py 87-104) and *)
(* pathspec's 'gitwildmatch' patterns as PathSpec.from_lines compiles them *)
(* and PathSpec.match_file applies them.  The patterns of the model are    *)
(* made of literal characters, '*' and '?', '**' segments, a leading '!'   *)
(* or '/', a trailing '/', and '#' comment lines.                          *)
(***************************************************************************)
DEFAULT_EXCLUDE_PATTERNS ==
    << <<"n","o","d","e","_","m","o","d","u","l","e","s","/","*","*">>,  \* 'node_modules/**'
       <<".","g","i","t","/","*","*">>,                                  \* '.git/**'
       <<"_","_","p","y","c","a","c","h","e","_","_","/","*","*">>,      \* '__pycache__/**'
       <<"*",".","p","y","c">>,                                          \* '*.pyc'
       <<".","e","n","v","*">>,                                          \* '.env*'
       <<"v","e","n","v","/","*","*">>,                                  \* 'venv/**'
       <<"e","n","v","/","*","*">>,                                      \* 'env/**'
       <<".","v","e","n","v","/","*","*">>,                              \* '.venv/**'
       <<"d","i","s","t","/","*","*">>,                                  \* 'dist/**'
       <<"b","u","i","l","d","/","*","*">>,                              \* 'build/**'
       <<"*",".","l","o","g">>,                                          \* '*.log'
       <<".","D","S","_","S","t","o","r","e">>,                          \* '.DS_Store'
       <<"c","o","v","e","r","a","g","e","/","*","*">>,                  \* 'coverage/**'
       <<".","c","o","v","e","r","a","g","e">>,                          \* '.coverage'
       <<"*",".","m","i","n",".","j","s">>,                              \* '*.min.js'
       <<"*",".","m","i","n",".","c","s","s">>,                          \* '*.min.css'
       <<"p","a","c","k","a","g","e","-","l","o","c","k",".","j","s","o","n">>,
                                                                         \* 'package-lock.json'
       <<"y","a","r","n",".","l","o","c","k">>,                          \* 'yarn.lock'
       <<".","i","d","e","a","/","*","*">>,                              \* '.idea/**'
       <<".","v","s","c","o","d","e","/","*","*">>,                      \* '.vscode/**'
       <<"*",".","s","q","l","i","t","e","*">>,                          \* '*.sqlite*'
       <<"*",".","d","b">>,                                              \* '*.db'
       <<"m","i","g","r","a","t","i","o","n","s","/","*","*">>,          \* 'migrations/**'
       <<"s","t","a","t","i","c","/","*","*">>,                          \* 'static/**'
       <<"m","e","d","i","a","/","*","*">>,                              \* 'media/**'
       <<"u","p","l","o","a","d","s","/","*","*">> >>                    \* 'uploads/**'

\* the patterns added when include_tests is False
TEST_EXCLUDE_PATTERNS ==
    << <<"t","e","s","t","/","*","*">>,              \* 'test/**'
       <<"t","e","s","t","s","/","*","*">>,          \* 'tests/**'
       <<"*","_","t","e","s","t",".","p","y">>,      \* '*_test.py'
       <<"t","e","s","t","_","*",".","p","y">>,      \* 'test_*.py'
       <<"*",".","t","e","s","t",".","j","s">>,      \* '*.test.js'
       <<"*",".","t","e","s","t",".","t","s">>,      \* '*.test.ts'
       <<"*",".","s","p","e","c",".","j","s">>,      \* '*.spec.js'
       <<"*",".","s","p","e","c",".","t","s">> >>    \* '*.spec.ts'

\* a plausible slip: the user's patterns appended after the built-in ones
exclude_patterns_defaults_first(user, incl_tests) ==
    DEFAULT_EXCLUDE_PATTERNS \o
    (IF ~incl_tests THEN TEST_EXCLUDE_PATTERNS ELSE << >>) \o user

\* self.exclude_patterns as __init__ leaves it
exclude_patterns_of(user, incl_tests) ==
    (user \o DEFAULT_EXCLUDE_PATTERNS) \o
    (IF ~incl_tests THEN TEST_EXCLUDE_PATTERNS ELSE << >>)

\* str.split(sep) for a one-character separator
RECURSIVE SplitFrom(_, _, _)
SplitFrom(s, sep, cur) ==
    IF s = << >> THEN <<cur>>
    ELSE IF Head(s) = sep THEN <<cur>> \o SplitFrom(Tail(s), sep, << >>)
    ELSE SplitFrom(Tail(s), sep, Append(cur, Head(s)))

split(s, sep) == SplitFrom(s, sep, << >>)

DoubleStar == <<"*","*">>

\* the normalisation loop that drops a '**' segment following a '**' segment
RECURSIVE DropRepeatedDoubleStar(_)
DropRepeatedDoubleStar(segs) ==
    IF Len(segs) <= 1 THEN segs
    ELSE IF segs[1] = DoubleStar /\ segs[2] = DoubleStar
         THEN DropRepeatedDoubleStar(Tail(segs))
         ELSE <<Head(segs)>> \o DropRepeatedDoubleStar(Tail(segs))

\* GitWildMatchPattern.pattern_to_regex: the pattern's `include` flag (absent
\* for a comment, a blank line or a lone '/') and the normalised segments its
\* regular expression is generated from
pattern_to_regex(pattern) ==
    IF pattern = << >> \/ Head(pattern) = "#" \/ pattern = <<"/">>
    THEN [null |-> TRUE, include |-> FALSE, segs |-> << >>]
    ELSE
      LET negated == Head(pattern) = "!"
          body    == IF negated THEN Tail(pattern) ELSE pattern
          segs0   == DropRepeatedDoubleStar(split(body, "/"))
          segs1   == IF segs0[1] = << >> THEN Tail(segs0)
                     ELSE IF Len(segs0) = 1 \/ (Len(segs0) = 2 /\ segs0[2] = << >>)
                          THEN IF segs0[1] # DoubleStar
                               THEN <<DoubleStar>> \o segs0 ELSE segs0
                          ELSE segs0
          segs2   == IF Len(segs1) > 1 /\ segs1[Len(segs1)] = << >>
                     THEN [segs1 EXCEPT ![Len(segs1)] = DoubleStar]
                     ELSE segs1
      IN  [null |-> FALSE, include |-> ~negated, segs |-> segs2]

\* one translated pattern segment against one path segment: '*' is [^/]*,
\* '?' is [^/], anything else itself
RECURSIVE SegMatch(_, _)
SegMatch(g, name) ==
    IF g = << >> THEN name = << >>
    ELSE IF Head(g) = "*"
         THEN \E k \in 0..Len(name) :
                 SegMatch(Tail(g), SubSeq(name, k + 1, Len(name)))
    ELSE IF name = << >> THEN FALSE
    ELSE IF Head(g) = "?" THEN SegMatch(Tail(g), Tail(name))
    ELSE Head(g) = Head(name) /\ SegMatch(Tail(g), Tail(name))

\* the generated regular expression, from segment i on, against the path's
\* segments from j on: a leading '**' is (?:.+/)?, an inner one (?:/.+)?, the
\* last one /.+ ; the last segment, when it is not '**', is followed by
\* (?:/.*)?
RECURSIVE RegexMatch(_, _, _, _)
RegexMatch(segs, i, parts, j) ==
    LET n == Len(segs)
        k == Len(parts)
    IN  IF segs[i] = DoubleStar
        THEN IF i = n THEN j <= k
             ELSE \E skip \in 0..(k - j + 1) :
                     RegexMatch(segs, i + 1, parts, j + skip)
        ELSE /\ j <= k
             /\ SegMatch(segs[i], parts[j])
             /\ i < n => RegexMatch(segs, i + 1, parts, j + 1)

\* the pattern's regular expression against the segments of a path
SegmentsMatch(pat, parts) ==
    /\ ~pat.null
    /\ pat.segs # << >>
    /\ RegexMatch(pat.segs, 1, parts, 1)

\* pattern.match_file(file) is not None, file a normalised relative path
PatternMatches(pat, file) == SegmentsMatch(pat, split(file, "/"))

\* PathSpec.from_lines('gitwildmatch', lines)
from_lines(lines) == [i \in 1..Len(lines) |-> pattern_to_regex(lines[i])]

\* a plausible slip: the first matching pattern decides
RECURSIVE FirstMatchFrom(_, _, _)
FirstMatchFrom(patterns, i, parts) ==
    IF i > Len(patterns) THEN FALSE
    ELSE IF SegmentsMatch(patterns[i], parts) THEN patterns[i].include
    ELSE FirstMatchFrom(patterns, i + 1, parts)

match_file_first(patterns, file) ==
    FirstMatchFrom(patterns, 1, split(file, "/"))

\* the loop of pathspec.util.match_file over the segments of the path: every
\* pattern that matches overwrites `matched` with its include flag
RECURSIVE MatchLoop(_, _, _, _)
MatchLoop(patterns, i, parts, result) ==
    IF i > Len(patterns) THEN result
    ELSE MatchLoop(patterns, i + 1, parts,
                   IF SegmentsMatch(patterns[i], parts)
                   THEN patterns[i].include ELSE result)

\* self.spec.match_file(str(relative_path))
match_file(patterns, file) == MatchLoop(patterns, 1, split(file, "/"), FALSE)

\* patterns a user passes with --exclude
UserPatternPool ==
    { <<"!","n","o","d","e","_","m","o","d","u","l","e","s","/","*","*">>,  \* '!node_modules/**'
      <<"*",".","m","d">>,                                                  \* '*.md'
      <<"!","R","E","A","D","M","E",".","m","d">>,                          \* '!README.md'
      <<"d","o","c","s","/">>,                                              \* 'docs/'
      <<"!","t","e","s","t","s","/","*","*">>,                              \* '!tests/**'
      <<"#"," ","n","o","t","e","s">>,                                      \* '# notes'
      <<"/","s","r","c","/","g","e","n">> }                                 \* '/src/gen'

UserPatternLists == UNION {[1..k -> UserPatternPool] : k \in 0..MaxUser}

\* relative paths handed to match_file
MatchPaths ==
    { <<"n","o","d","e","_","m","o","d","u","l","e","s","/","l","i","b","/","i","n","d","e","x",".","j","s">>,
                                                                  \* 'node_modules/lib/index.js'
      <<"n","o","d","e","_","m","o","d","u","l","e","s">>,        \* 'node_modules'
      <<"p","k","g","/","n","o","d","e","_","m","o","d","u","l","e","s","/","x",".","j","s">>,
                                                                  \* 'pkg/node_modules/x.js'
      <<"R","E","A","D","M","E",".","m","d">>,                    \* 'README.md'
      <<"C","H","A","N","G","E","S",".","m","d">>,                \* 'CHANGES.md'
      <<"d","o","c","s","/","g","u","i","d","e",".","m","d">>,    \* 'docs/guide.md'
      <<"s","r","c","/","a","p","p",".","p","y">>,                \* 'src/app.py'
      <<"s","r","c","/","g","e","n","/","o","u","t",".","p","y">>,\* 'src/gen/out.py'
      <<"s","r","c","/","u","t","i","l",".","p","y","c">>,        \* 'src/util.pyc'
      <<"s","r","c","/","a","p","p",".","t","e","s","t",".","j","s">>, \* 'src/app.test.js'
      <<"t","e","s","t","s","/","t","e","s","t","_","a","p","p",".","p","y">>,
                                                                  \* 'tests/test_app.py'
      <<".","e","n","v",".","l","o","c","a","l">> }               \* '.env.local'

\* analyzer = CodebaseAnalyzer(root_path, exclude_patterns, include_tests)
Construct ==
    /\ apc = "new"
    /\ exclude_patterns' = exclude_patterns_of(exclude_arg, include_tests)
    /\ spec' = from_lines(exclude_patterns_of(exclude_arg, include_tests))
    /\ apc' = "constructed"
    /\ UNCHANGED <<exclude_arg, include_tests>>

\* self.spec.match_file(path)
CallMatchFile ==
    /\ apc = "constructed"
    /\ matched' = match_file(spec, mpath)
    /\ apc' = "matched"
    /\ UNCHANGED <<initVars, mpath>>

InitMatch ==
    /\ apc = "new"
    /\ exclude_arg \in UserPatternLists
    /\ include_tests \in BOOLEAN
    /\ exclude_patterns = << >>
    /\ spec = << >>
    /\ mpath \in MatchPaths
    /\ matched = FALSE
    /\ KeyIdle /\ PyIdle /\ AnalysisIdle /\ RestIdle

MatchNext ==
    \/ Construct /\ UNCHANGED <<keyVars, pyVars, matchVars, fsVars, analysisVars,
                               restVars>>
    \/ CallMatchFile /\ UNCHANGED <<keyVars, pyVars, fsVars, analysisVars,
                                   restVars>>

SpecMatch == InitMatch /\ [][MatchNext]_vars

IsNegation(pattern) == pattern # << >> /\ Head(pattern) = "!"

\* the orders in which the user's patterns can be given
Reorderings(s) ==
    {[i \in 1..Len(s) |-> s[f[i]]] : f \in Permutations(1..Len(s))}

\* C3: a path matching a built-in default exclusion pattern is reported
\* excluded, whatever patterns the user supplies (negations included) and
\* whatever include_tests is.
C3_DefaultsAlwaysExclude ==
    apc = "matched" =>
        ((\E i \in 1..Len(DEFAULT_EXCLUDE_PATTERNS) :
             PatternMatches(pattern_to_regex(DEFAULT_EXCLUDE_PATTERNS[i]), mpath))
         => matched)

\* a path under node_modules/ matched while the user negates that default
C3_Witness ==
    /\ apc = "matched"
    /\ \E i \in 1..Len(exclude_arg) :
          exclude_arg[i] = <<"!">> \o DEFAULT_EXCLUDE_PATTERNS[1]
    /\ PatternMatches(pattern_to_regex(DEFAULT_EXCLUDE_PATTERNS[1]), mpath)
    /\ matched

\* C4 as stated: the result does not depend on the order of the rules, and a
\* path is excluded whenever at least one exclusion rule matches it.
C4_AnyMatchExcludes ==
    apc = "matched" =>
        /\ \A r \in Reorderings(exclude_arg) :
              match_file(from_lines(exclude_patterns_of(r, include_tests)), mpath)
                = matched
        /\ (\E i \in 1..Len(spec) :
               spec[i].include /\ PatternMatches(spec[i], mpath)) => matched

\* C4 amended: the last rule that matches decides. A path is excluded exactly
\* when a rule matches it and the last such rule is not a negation; when the
\* user gives no negation rule the order of the rules is irrelevant and any
\* match excludes.
C4_LastMatchWins ==
    apc = "matched" =>
        /\ matched <=>
              \E i \in 1..Len(spec) :
                  /\ PatternMatches(spec[i], mpath)
                  /\ spec[i].include
                  /\ \A j \in (i + 1)..Len(spec) : ~PatternMatches(spec[j], mpath)
        /\ (\A i \in 1..Len(exclude_arg) : ~IsNegation(exclude_arg[i])) =>
              /\ \A r \in Reorderings(exclude_arg) :
                    match_file(from_lines(exclude_patterns_of(r, include_tests)),
                               mpath) = matched
              /\ matched <=>
                    \E i \in 1..Len(spec) : PatternMatches(spec[i], mpath)

\* README.md matched under '*.md' followed by '!README.md': re-included
C4_Witness ==
    /\ apc = "matched"
    /\ exclude_arg = << <<"*",".","m","d">>,
                        <<"!","R","E","A","D","M","E",".","m","d">> >>
    /\ mpath = <<"R","E","A","D","M","E",".","m","d">>
    /\ ~matched

(***************************************************************************)
(* The file system below the root, as pathlib shows it to the analyzer.    *)
(* A path is the sequence of its parts; the root is the empty sequence.    *)
(***************************************************************************)
n_README_md     == <<"R","E","A","D","M","E",".","m","d">>
n_src           == <<"s","r","c">>
n_app_py        == <<"a","p","p",".","p","y">>
n_app_test_js   == <<"a","p","p",".","t","e","s","t",".","j","s">>
n_gen           == <<"g","e","n">>
n_out_py        == <<"o","u","t",".","p","y">>
n_tests         == <<"t","e","s","t","s">>
n_test_app_py   == <<"t","e","s","t","_","a","p","p",".","p","y">>
n_node_modules  == <<"n","o","d","e","_","m","o","d","u","l","e","s">>
n_lib           == <<"l","i","b">>
n_index_js      == <<"i","n","d","e","x",".","j","s">>
n_pkg           == <<"p","k","g">>
n_x_js          == <<"x",".","j","s">>
n_docs          == <<"d","o","c","s">>
n_NOTES_TXT     == <<"N","O","T","E","S",".","T","X","T">>
n_Makefile      == <<"M","a","k","e","f","i","l","e">>
n_deep          == <<"d","e","e","p">>
n_app_yml       == <<"a","p","p",".","y","m","l">>
n_x_py          == <<"x",".","p","y">>

\* the contents of the JS files
js_app_test ==
    <<"d","e","s","c","r","i","b","e","(","'","x","'",")","\n">>
js_index ==
    <<"f","u","n","c","t","i","o","n"," ","f","o","o","(",")"," ","{","}","\n">>
js_x ==
    <<"c","o","n","s","t"," ","y"," ","="," ","r","e","q","u","i","r","e","(","'","f","s","'",")","\n","i","m","p","o","r","t"," ","x"," ","f","r","o","m"," ","'","l","i","b","'","\n">>

\* A regular file: its parts, whether open() succeeds, its content as the
\* number of one-byte and of two-byte UTF-8 characters, its number of lines,
\* and the text the extraction reads (any further content is a comment that
\* holds no keyword).
FileUniverse ==
    { [parts |-> <<n_README_md>>,
       readable |-> TRUE, ascii |-> 6, wide |-> 0, lines |-> 1, text |-> << >>],
      [parts |-> <<n_src, n_app_py>>,
       readable |-> TRUE, ascii |-> 43, wide |-> 0, lines |-> 3,
       text |-> ClassWithMethod],
      [parts |-> <<n_src, n_app_py>>,
       readable |-> FALSE, ascii |-> 43, wide |-> 0, lines |-> 3,
       text |-> ClassWithMethod],
      [parts |-> <<n_src, n_app_py>>,
       readable |-> TRUE, ascii |-> 100000, wide |-> 0, lines |-> 4,
       text |-> ClassWithMethod],
      [parts |-> <<n_src, n_app_py>>,
       readable |-> TRUE, ascii |-> 99999, wide |-> 1, lines |-> 4,
       text |-> ClassWithMethod],
      [parts |-> <<n_src, n_app_py>>,
       readable |-> TRUE, ascii |-> 100001, wide |-> 0, lines |-> 4,
       text |-> ClassWithMethod],
      [parts |-> <<n_src, n_app_test_js>>,
       readable |-> TRUE, ascii |-> 14, wide |-> 0, lines |-> 1,
       text |-> js_app_test],
      [parts |-> <<n_src, n_gen, n_out_py>>,
       readable |-> TRUE, ascii |-> 11, wide |-> 0, lines |-> 1,
       text |-> JoinLines(<<4>>)],
      [parts |-> <<n_src, n_gen, n_deep, n_x_py>>,
       readable |-> TRUE, ascii |-> 11, wide |-> 0, lines |-> 1,
       text |-> JoinLines(<<4>>)],
      [parts |-> <<n_tests, n_test_app_py>>,
       readable |-> TRUE, ascii |-> 14, wide |-> 0, lines |-> 1,
       text |-> JoinLines(<<5>>)],
      [parts |-> <<n_node_modules, n_lib, n_index_js>>,
       readable |-> TRUE, ascii |-> 18, wide |-> 0, lines |-> 1,
       text |-> js_index],
      [parts |-> <<n_pkg, n_node_modules, n_x_js>>,
       readable |-> TRUE, ascii |-> 44, wide |-> 0, lines |-> 2,
       text |-> js_x],
      [parts |-> <<n_docs, n_NOTES_TXT>>,
       readable |-> TRUE, ascii |-> 6, wide |-> 0, lines |-> 1, text |-> << >>],
      [parts |-> <<n_app_yml>>,
       readable |-> TRUE, ascii |-> 8, wide |-> 0, lines |-> 1, text |-> << >>],
      [parts |-> <<n_Makefile>>,
       readable |-> TRUE, ascii |-> 5, wide |-> 0, lines |-> 1, text |-> << >>] }

\* the file systems of the model: at most MaxFiles files, one per path
FileSystems ==
    {S \in SUBSET FileUniverse :
        /\ Cardinality(S) <= MaxFiles
        /\ \A f, g \in S : f.parts = g.parts => f = g}

\* the directories, each holding a file somewhere below it
DirsOf(S) == UNION {{SubSeq(f.parts, 1, k) : k \in 1..(Len(f.parts) - 1)} : f \in S}

\* The permission bits of at most one directory deny something: "nolist" (no
\* read bit: listing it raises PermissionError) or "nosearch" (no execute
\* bit: it can be listed, but stat() of an entry raises PermissionError).
Permissions(S) ==
    {{}} \cup
    {{[dir |-> d, mode |-> m]} : d \in DirsOf(S) \cap {<<n_src>>},
                                 m \in {"nolist", "nosearch"}}

Root == << >>

Dirs == DirsOf(fs_files)

Entries == {f.parts : f \in fs_files} \cup Dirs

DirMode(d) ==
    IF \E r \in fs_perm : r.dir = d
    THEN (CHOOSE r \in fs_perm : r.dir = d).mode
    ELSE "ok"

Parent(e) == SubSeq(e, 1, Len(e) - 1)

\* the entries of directory d
ChildrenOf(d) == {e \in Entries : Len(e) = Len(d) + 1 /\ Parent(e) = d}

FileAt(e) == CHOOSE f \in fs_files : f.parts = e

\* '/'.join(parts)
RECURSIVE JoinPath(_)
JoinPath(parts) ==
    IF Len(parts) = 1 THEN parts[1]
    ELSE parts[1] \o <<"/">> \o JoinPath(Tail(parts))

\* the characters of the model in code point order
CodePoints ==
    <<NL, " ", "!", "#", "'", "(", ")", "*", "-", ".", "/",
      "0","1","2","3","4","5","6","7","8","9", ":", ";", "=", "?">>
    \o Upper \o <<"_">> \o Lower

Ord(c) == CHOOSE i \in 1..Len(CodePoints) : CodePoints[i] = c

\* a < b on strings
RECURSIVE StrLess(_, _)
StrLess(a, b) ==
    IF b = << >> THEN FALSE
    ELSE IF a = << >> THEN TRUE
    ELSE IF Head(a) = Head(b) THEN StrLess(Tail(a), Tail(b))
    ELSE Ord(Head(a)) < Ord(Head(b))

\* a plausible slip: sorted(..., reverse=True)
RECURSIVE sorted_descending(_)
sorted_descending(S) ==
    IF S = {} THEN << >>
    ELSE LET m == CHOOSE x \in S :
                    \A y \in S \ {x} : StrLess(JoinPath(y), JoinPath(x))
         IN  <<m>> \o sorted_descending(S \ {m})

\* sorted(paths): pure paths compare by their parts
RECURSIVE sorted(_)
sorted(S) ==
    IF S = {} THEN << >>
    ELSE LET m == CHOOSE x \in S :
                    \A y \in S \ {x} : StrLess(JoinPath(x), JoinPath(y))
         IN  <<m>> \o sorted(S \ {m})

\* str(path.relative_to(self.root_path))
RelativeStr(e) == JoinPath(e)

\* Path.suffix: from the last dot of the name, unless that dot is the first
\* or the last character
suffix(name) ==
    LET dots == {i \in 1..Len(name) : name[i] = "."}
        last == CHOOSE i \in dots : \A j \in dots : j <= i
    IN  IF dots = {} THEN << >>
        ELSE IF last = 1 \/ last = Len(name) THEN << >>
        ELSE SubSeq(name, last, Len(name))

SUPPORTED_EXTENSIONS ==
    {
       [ext |-> <<".","p","y">>, language |-> "python"],
       [ext |-> <<".","j","s">>, language |-> "javascript"],
       [ext |-> <<".","t","s">>, language |-> "typescript"],
       [ext |-> <<".","j","s","x">>, language |-> "jsx"],
       [ext |-> <<".","t","s","x">>, language |-> "tsx"],
       [ext |-> <<".","j","a","v","a">>, language |-> "java"],
       [ext |-> <<".","c","p","p">>, language |-> "cpp"],
       [ext |-> <<".","c">>, language |-> "c"],
       [ext |-> <<".","h">>, language |-> "c"],
       [ext |-> <<".","h","p","p">>, language |-> "cpp"],
       [ext |-> <<".","c","s">>, language |-> "csharp"],
       [ext |-> <<".","r","b">>, language |-> "ruby"],
       [ext |-> <<".","g","o">>, language |-> "go"],
       [ext |-> <<".","r","s">>, language |-> "rust"],
       [ext |-> <<".","p","h","p">>, language |-> "php"],
       [ext |-> <<".","s","w","i","f","t">>, language |-> "swift"],
       [ext |-> <<".","k","t">>, language |-> "kotlin"],
       [ext |-> <<".","s","c","a","l","a">>, language |-> "scala"],
       [ext |-> <<".","r">>, language |-> "r"],
       [ext |-> <<".","s","q","l">>, language |-> "sql"],
       [ext |-> <<".","s","h">>, language |-> "bash"],
       [ext |-> <<".","y","m","l">>, language |-> "yaml"],
       [ext |-> <<".","y","a","m","l">>, language |-> "yaml"],
       [ext |-> <<".","j","s","o","n">>, language |-> "json"],
       [ext |-> <<".","x","m","l">>, language |-> "xml"],
       [ext |-> <<".","h","t","m","l">>, language |-> "html"],
       [ext |-> <<".","c","s","s">>, language |-> "css"],
       [ext |-> <<".","s","c","s","s">>, language |-> "scss"],
       [ext |-> <<".","s","a","s","s">>, language |-> "sass"],
       [ext |-> <<".","m","d">>, language |-> "markdown"],
       [ext |-> <<".","t","x","t">>, language |-> "text"],
       [ext |-> <<".","d","o","c","k","e","r","f","i","l","e">>, language |-> "dockerfile"],
       [ext |-> <<".","m","a","k","e","f","i","l","e">>, language |-> "makefile"],
       [ext |-> <<".","t","o","m","l">>, language |-> "toml"],
       [ext |-> <<".","i","n","i">>, language |-> "ini"],
       [ext |-> <<".","c","f","g">>, language |-> "ini"] }

InSupported(ext) == \E r \in SUPPORTED_EXTENSIONS : r.ext = ext

\* self.SUPPORTED_EXTENSIONS.get(ext, 'unknown')
LanguageOf(ext) ==
    IF InSupported(ext)
    THEN (CHOOSE r \in SUPPORTED_EXTENSIONS : r.ext = ext).language
    ELSE "unknown"

(***************************************************************************)
(* CodebaseAnalyzer._get_code_files  (analyzer.py 276-292)                 *)
(***************************************************************************)
\* self.root_path.rglob('*') from directory d: pathlib swallows the
\* PermissionError of a directory it cannot scan
RECURSIVE RglobFrom(_)
RglobFrom(d) ==
    IF DirMode(d) = "nolist" THEN {}
    ELSE ChildrenOf(d) \cup
         (IF DirMode(d) = "nosearch" THEN {}
          ELSE UNION {RglobFrom(c) : c \in ChildrenOf(d) \cap Dirs})

\* file_path.is_file() raises PermissionError: stat() needs the execute bit
\* of the directory that holds the entry
StatRaises(e) == DirMode(Parent(e)) = "nosearch"

\* a plausible slip: the exclusion test left out of the walk
KeepEveryFile(e) ==
    /\ e \notin Dirs
    /\ InSupported(lower(suffix(e[Len(e)])))

\* the body of the loop: whether file_path is appended to `files`
IsCodeFile(e) ==
    /\ e \notin Dirs
    /\ ~match_file(spec, RelativeStr(e))
    /\ InSupported(lower(suffix(e[Len(e)])))

\* whether the call raises, and the list it returns otherwise (in the order
\* of the walk, which the model takes sorted)
_get_code_files ==
    LET walked == RglobFrom(Root)
    IN  [raises |-> \E e \in walked : StatRaises(e),
         paths  |-> sorted({e \in walked : IsCodeFile(e)})]

(***************************************************************************)
(* CodebaseAnalyzer._get_project_info  (analyzer.py 121-147)               *)
(***************************************************************************)
\* a plausible slip: the size test of _analyze_file applied to the count
CountedUnlessLarge(paths) ==
    SelectSeq(paths, LAMBDA e : /\ FileAt(e).readable
                                /\ FileAt(e).ascii + FileAt(e).wide <= 100000)

\* the files the loop counts: open() raises for the others
Counted(paths) == SelectSeq(paths, LAMBDA e : FileAt(e).readable)

RECURSIVE SumLines(_)
SumLines(paths) ==
    IF paths = << >> THEN 0
    ELSE FileAt(Head(paths)).lines + SumLines(Tail(paths))

_get_project_info(paths) ==
    LET counted == Counted(paths)
        langOf(e) == LanguageOf(lower(suffix(e[Len(e)])))
        langs == {langOf(counted[i]) : i \in 1..Len(counted)}
    IN  [total_files |-> Len(counted),
         total_lines |-> SumLines(counted),
         languages   |-> [l \in langs |->
                            Cardinality({i \in 1..Len(counted) :
                                           langOf(counted[i]) = l})]]

(***************************************************************************)
(* CodebaseAnalyzer._get_directory_structure  (analyzer.py 149-170)        *)
(***************************************************************************)
max_depth == 3

\* sorted(path.iterdir()) raises PermissionError for a directory without the
\* read bit, or below one without the execute bit
IterdirRaises(d) ==
    \/ DirMode(d) = "nolist"
    \/ \E k \in 0..(Len(d) - 1) : DirMode(SubSeq(d, 1, k)) = "nosearch"

\* a plausible slip: the exclusion test left out of the tree walk
ListEveryItem(item) == TRUE

\* whether the loop of build_tree records item
IsListed(item) == ~match_file(spec, RelativeStr(item))

\* build_tree(path, max_depth, current_depth): the dict as the sequence of
\* its items in insertion order; an item is its key, whether its value is
\* 'file', and otherwise the dict that is its value.
\* In a directory without the execute bit item.is_dir() raises at the first
\* item that is not skipped, which ends the loop with nothing recorded.
RECURSIVE build_tree(_, _)
build_tree(d, current_depth) ==
    IF current_depth >= max_depth THEN << >>
    ELSE IF IterdirRaises(d) \/ DirMode(d) = "nosearch" THEN << >>
    ELSE LET items == SelectSeq(sorted(ChildrenOf(d)), IsListed)
         IN  [i \in 1..Len(items) |->
                IF items[i] \in Dirs
                THEN [name |-> items[i][Len(items[i])] \o <<"/">>,
                      file |-> FALSE,
                      tree |-> build_tree(items[i], current_depth + 1)]
                ELSE [name |-> items[i][Len(items[i])],
                      file |-> TRUE, tree |-> << >>]]

(***************************************************************************)
(* CodebaseAnalyzer._analyze_javascript_file  (analyzer.py 251-274)        *)
(***************************************************************************)
NoMatch == [ok |-> FALSE, group |-> << >>, end |-> 0]

IsQuote(c) == c \in {"'", "\""}

\* the position after the longest run of [^'"] characters that starts at p
RECURSIVE QuoteFreeRunEnd(_, _)
QuoteFreeRunEnd(s, p) ==
    IF p <= Len(s) /\ ~IsQuote(s[p]) THEN QuoteFreeRunEnd(s, p + 1) ELSE p

\* the position after the longest run of [^)] characters that starts at p
RECURSIVE ParenFreeRunEnd(_, _)
ParenFreeRunEnd(s, p) ==
    IF p <= Len(s) /\ s[p] # ")" THEN ParenFreeRunEnd(s, p + 1) ELSE p

CharAt(s, p) == IF p >= 1 /\ p <= Len(s) THEN s[p] ELSE ""

kw_require  == <<"r","e","q","u","i","r","e">>
kw_function == <<"f","u","n","c","t","i","o","n">>
kw_async    == <<"a","s","y","n","c">>
kw_arrow    == <<"=",">">>

\* ['"]([^'"]+)['"] tried at position p
MatchQuoted(s, p) ==
    LET c == QuoteFreeRunEnd(s, p + 1)
    IN  IF IsQuote(CharAt(s, p)) /\ c > p + 1 /\ IsQuote(CharAt(s, c))
        THEN [ok |-> TRUE, group |-> SubSeq(s, p + 1, c - 1), end |-> c + 1]
        ELSE NoMatch

\* (?:import|require)\s*\(['"]([^'"]+)['"]\) tried at position p
MatchCall(s, p) ==
    LET a == IF StartsWithAt(s, p, kw_import) THEN p + Len(kw_import)
             ELSE p + Len(kw_require)
        b == SpaceRunEnd(s, a)
        q == MatchQuoted(s, b + 1)
    IN  IF /\ StartsWithAt(s, p, kw_import) \/ StartsWithAt(s, p, kw_require)
           /\ CharAt(s, b) = "("
           /\ q.ok
           /\ CharAt(s, q.end) = ")"
        THEN [ok |-> TRUE, group |-> q.group, end |-> q.end + 1]
        ELSE NoMatch

\* \s+from\s+['"]([^'"]+)['"] tried at position e
MatchFromTail(s, e) ==
    LET f == SpaceRunEnd(s, e)
        g == f + Len(kw_from)
        h == SpaceRunEnd(s, g)
    IN  IF f > e /\ StartsWithAt(s, f, kw_from) /\ h > g
        THEN MatchQuoted(s, h) ELSE NoMatch

\* import\s+.+\s+from\s+['"]([^'"]+)['"] tried at position p: \s+ and .+
\* are greedy, so of the ways to match the one with the longest \s+, and
\* then the longest .+ (which stays on its line), is taken
MatchImportFrom(s, p) ==
    LET a  == p + Len(kw_import)
        b  == SpaceRunEnd(s, a)
        Es(k) == {e \in (k + 1)..LineEnd(s, k) : MatchFromTail(s, e).ok}
        Ks == {k \in (a + 1)..b : Es(k) # {}}
        k  == CHOOSE x \in Ks : \A y \in Ks : y <= x
        e  == CHOOSE x \in Es(k) : \A y \in Es(k) : y <= x
    IN  IF StartsWithAt(s, p, kw_import) /\ Ks # {}
        THEN MatchFromTail(s, e) ELSE NoMatch

\* function\s+(\w+) tried at position p
MatchFunctionKeyword(s, p) ==
    LET a == p + Len(kw_function)
        b == SpaceRunEnd(s, a)
        c == WordRunEnd(s, b)
    IN  IF StartsWithAt(s, p, kw_function) /\ b > a /\ c > b
        THEN [ok |-> TRUE, group |-> SubSeq(s, b, c - 1), end |-> c]
        ELSE NoMatch

\* (?:function|\([^)]*\)\s*=>) tried at position p
MatchFunctionValue(s, p) ==
    LET y == ParenFreeRunEnd(s, p + 1)
        z == SpaceRunEnd(s, y + 1)
    IN  IF StartsWithAt(s, p, kw_function)
        THEN [ok |-> TRUE, group |-> << >>, end |-> p + Len(kw_function)]
        ELSE IF /\ CharAt(s, p) = "("
                /\ CharAt(s, y) = ")"
                /\ StartsWithAt(s, z, kw_arrow)
        THEN [ok |-> TRUE, group |-> << >>, end |-> z + Len(kw_arrow)]
        ELSE NoMatch

\* (\w+)\s*=\s*(?:async\s+)?(?:function|\([^)]*\)\s*=>) tried at position p
MatchAssignedFunction(s, p) ==
    LET w == WordRunEnd(s, p)
        b == SpaceRunEnd(s, w)
        c == SpaceRunEnd(s, b + 1)
        d == SpaceRunEnd(s, c + Len(kw_async))
        withAsync == IF StartsWithAt(s, c, kw_async) /\ d > c + Len(kw_async)
                     THEN MatchFunctionValue(s, d) ELSE NoMatch
        bare == MatchFunctionValue(s, c)
        v == IF withAsync.ok THEN withAsync ELSE bare
    IN  IF w > p /\ CharAt(s, b) = "=" /\ v.ok
        THEN [ok |-> TRUE, group |-> SubSeq(s, p, w - 1), end |-> v.end]
        ELSE NoMatch

\* the pattern of `functions` tried at position p, f[0] or f[1] as the group
MatchFunction(s, p) ==
    IF MatchFunctionKeyword(s, p).ok THEN MatchFunctionKeyword(s, p)
    ELSE MatchAssignedFunction(s, p)

\* class\s+(\w+) tried at position p
MatchClass(s, p) ==
    LET a == p + Len(kw_class)
        b == SpaceRunEnd(s, a)
        c == WordRunEnd(s, b)
    IN  IF StartsWithAt(s, p, kw_class) /\ b > a /\ c > b
        THEN [ok |-> TRUE, group |-> SubSeq(s, b, c - 1), end |-> c]
        ELSE NoMatch

\* the pattern named by `pattern` tried at position p
MatchAt(pattern, s, p) ==
    CASE pattern = "call"        -> MatchCall(s, p)
      [] pattern = "import_from" -> MatchImportFrom(s, p)
      [] pattern = "function"    -> MatchFunction(s, p)
      [] pattern = "class"       -> MatchClass(s, p)

\* re.findall(pattern, content), scanning from pos
RECURSIVE FindAll(_, _, _)
FindAll(pattern, s, pos) ==
    LET starts == {p \in pos..Len(s) : MatchAt(pattern, s, p).ok}
    IN  IF starts = {} THEN << >>
        ELSE LET p == CHOOSE q \in starts : \A r \in starts : q <= r
                 m == MatchAt(pattern, s, p)
             IN  <<m.group>> \o FindAll(pattern, s, m.end)

\* the keywords of the test check of JS/TS files
JsTestKeywords ==
    << <<"t","e","s","t">>,                       \* 'test'
       <<"s","p","e","c">>,                       \* 'spec'
       <<"d","e","s","c","r","i","b","e">>,       \* 'describe'
       <<"i","t","(">> >>                         \* 'it('

HasJsTestKeyword(c) ==
    \E k \in 1..Len(JsTestKeywords) : Contains(lower(c), JsTestKeywords[k])

\* a set of strings as a list, ascending or descending
RECURSIVE ListOfSet(_, _)
ListOfSet(S, descending) ==
    IF S = {} THEN << >>
    ELSE LET m == CHOOSE x \in S :
                    \A y \in S \ {x} :
                       IF descending THEN StrLess(y, x) ELSE StrLess(x, y)
         IN  <<m>> \o ListOfSet(S \ {m}, descending)

\* list(set(imports)) puts the distinct imports in the order of the set's
\* hash table, which differs from run to run: `descending` picks one of two
\* orders
_analyze_javascript_file(c, descending) ==
    LET imports == FindAll("call", c, 1) \o FindAll("import_from", c, 1)
    IN  [type      |-> IF HasJsTestKeyword(c) THEN "test" ELSE "source",
         imports   |-> ListOfSet(Range(imports), descending),
         functions |-> FindAll("function", c, 1),
         classes   |-> FindAll("class", c, 1)]

(***************************************************************************)
(* CodebaseAnalyzer._analyze_file and _analyze_files (analyzer.py 172-224) *)
(***************************************************************************)
LargeFileLimit == 100000

\* len(content) after open(..., encoding='utf-8').read(): one per character
ContentLength(f) == f.ascii + f.wide

\* the size of the file in bytes
ByteSize(f) == f.ascii + 2 * f.wide

ext_py == <<".","p","y">>
ext_md == <<".","m","d">>
JavaScriptExts ==
    { <<".","j","s">>, <<".","t","s">>, <<".","j","s","x">>, <<".","t","s","x">> }

\* a plausible slip: '.yml' left out of the configuration extensions
ConfigurationExtsWithoutYml ==
    { <<".","y","a","m","l">>, <<".","j","s","o","n">>, <<".","t","o","m","l">> }

ConfigurationExts ==
    { <<".","y","m","l">>, <<".","y","a","m","l">>, <<".","j","s","o","n">>,
      <<".","t","o","m","l">> }

\* len(content) > 100000
TooLarge(f) == ContentLength(f) > LargeFileLimit

\* What _analyze_file returns, an Optional as a sequence: << >> for None,
\* <<file_info>> for a dict.  `descending` is the order list(set(...)) gives
\* the imports of a JS/TS file.
_analyze_file(e, descending) ==
    LET f    == FileAt(e)
        name == e[Len(e)]
        ext  == lower(suffix(name))
        base == [path |-> RelativeStr(e), name |-> name, extension |-> ext,
                 language |-> LanguageOf(ext), size |-> ContentLength(f),
                 lines |-> f.lines]
    IN  IF ~f.readable THEN << >>
        ELSE IF TooLarge(f) THEN << >>
        ELSE IF ext = ext_py THEN <<base @@ _analyze_python_file(f.text)>>
        ELSE IF ext \in JavaScriptExts
             THEN <<base @@ _analyze_javascript_file(f.text, descending)>>
        ELSE IF ext = ext_md THEN <<base @@ [type |-> "documentation"]>>
        ELSE IF ext \in ConfigurationExts
             THEN <<base @@ [type |-> "configuration"]>>
        ELSE <<base>>

\* the loop appends every file_info that is not None
_analyze_files(paths, descending) ==
    Flatten([i \in 1..Len(paths) |-> _analyze_file(paths[i], descending)])

(***************************************************************************)
(* CodebaseAnalyzer.analyze  (analyzer.py 106-119)                         *)
(***************************************************************************)
\* 'project_info': self._get_project_info(); a PermissionError out of
\* _get_code_files is caught nowhere and leaves analyze()
GetProjectInfo ==
    /\ apc = "constructed"
    /\ \E code_files \in {_get_code_files} :
           IF code_files.raises
           THEN apc' = "raised" /\ UNCHANGED project_info
           ELSE /\ project_info' = _get_project_info(code_files.paths)
                /\ apc' = "project_info"
    /\ UNCHANGED <<initVars, matchVars, fsVars, structure, analysis_files>>

\* 'structure': self._get_directory_structure()
GetDirectoryStructure ==
    /\ apc = "project_info"
    /\ structure' = build_tree(Root, 0)
    /\ apc' = "structure"
    /\ UNCHANGED <<initVars, matchVars, fsVars, project_info, analysis_files>>

\* 'files': self._analyze_files().  The three calls that follow read the
\* root directory only, each read inside a try, and end with analyze()
\* returning the dict; they are the actions of SpecRoot.
AnalyzeFiles ==
    /\ apc = "structure"
    /\ \E code_files \in {_get_code_files} :
           IF code_files.raises
           THEN apc' = "raised" /\ UNCHANGED analysis_files
           ELSE /\ \E descending \in BOOLEAN :
                      analysis_files' =
                          _analyze_files(code_files.paths, descending)
                /\ apc' = "returned"
    /\ UNCHANGED <<initVars, matchVars, fsVars, project_info, structure>>

\* the --exclude and --include-tests arguments of the runs
AnalyzeArguments ==
    { [exclude |-> << >>, include_tests |-> FALSE],
      [exclude |-> << >>, include_tests |-> TRUE],
      [exclude |-> << <<"*",".","m","d">>,
                      <<"!","R","E","A","D","M","E",".","m","d">> >>,
       include_tests |-> FALSE],
      [exclude |-> << <<"!","n","o","d","e","_","m","o","d","u","l","e","s","/","*","*">>,
                      <<"!","t","e","s","t","s","/","*","*">> >>,
       include_tests |-> FALSE],
      [exclude |-> << <<"/","s","r","c","/","g","e","n">> >>,
       include_tests |-> TRUE] }

Init ==
    /\ apc = "new"
    /\ \E a \in AnalyzeArguments :
          exclude_arg = a.exclude /\ include_tests = a.include_tests
    /\ exclude_patterns = << >>
    /\ spec = << >>
    /\ mpath = << >>
    /\ matched = FALSE
    /\ fs_files \in FileSystems
    /\ fs_perm \in Permissions(fs_files)
    /\ project_info = << >>
    /\ structure = << >>
    /\ analysis_files = << >>
    /\ KeyIdle /\ PyIdle /\ RestIdle

Next ==
    \/ Construct /\ UNCHANGED <<keyVars, pyVars, matchVars, fsVars, analysisVars,
                               restVars>>
    \/ GetProjectInfo /\ UNCHANGED <<keyVars, pyVars, restVars>>
    \/ GetDirectoryStructure /\ UNCHANGED <<keyVars, pyVars, restVars>>
    \/ AnalyzeFiles /\ UNCHANGED <<keyVars, pyVars, restVars>>

Spec == Init /\ [][Next]_vars

(***************************************************************************)
(* What the exclusion rules say about a path, stated on the rule list and  *)
(* not on the matcher's loop.                                              *)
(***************************************************************************)
\* some exclusion rule (a rule that is not a negation) matches the path
SomeRuleMatches(file) ==
    \E i \in 1..Len(spec) : spec[i].include /\ PatternMatches(spec[i], file)

\* the rules that match the path, by their place in the list
MatchingRules(file) ==
    {i \in 1..Len(spec) : PatternMatches(spec[i], file)}

\* some rule is in M and the last of them is not a negation
LastIsExclusion(M) ==
    M # {} /\ spec[CHOOSE i \in M : \A j \in M : j <= i].include

\* a rule matches the path and the last rule that does is not a negation
LastRuleExcludes(file) == LastIsExclusion(MatchingRules(file))

\* the six name forms of test files
TestNameForms == {TEST_EXCLUDE_PATTERNS[i] : i \in 3..8}

IsTestName(name) == \E g \in TestNameForms : SegMatch(g, name)

FirstPart(file) == split(file, "/")[1]

\* the path lies below the root's test/ or tests/, or the name has a test form
IsTestPath(file, name) ==
    \/ Len(split(file, "/")) > 1 /\ FirstPart(file) \in {<<"t","e","s","t">>, n_tests}
    \/ IsTestName(name)

UnderNodeModules(file) ==
    Len(split(file, "/")) > 1 /\ FirstPart(file) = n_node_modules

Records == {analysis_files[i] : i \in 1..Len(analysis_files)}

HasRecord(f) == \E r \in Records : r.path = JoinPath(f.parts)

\* the file's lower-cased extension is in the language table
ExtensionSupported(f) == InSupported(lower(suffix(f.parts[Len(f.parts)])))

readme_path == n_README_md

\* the directory is not below, and is not, one that denies a permission
Accessible(d) ==
    \A k \in 1..Len(d) : DirMode(SubSeq(d, 1, k)) = "ok"

\* the eligible files that can be read, in directories that can be walked
ReadableCodeFiles ==
    {f \in fs_files :
        IsCodeFile(f.parts) /\ f.readable /\ Accessible(Parent(f.parts))}

\* C5 as the specification words it: a record only for a file with a
\* supported extension whose path no exclusion rule matches; none under
\* node_modules/; test files only with include_tests.
C5_NoRuleMatches ==
    apc = "returned" =>
        /\ \A r \in Records :
              /\ InSupported(r.extension)
              /\ ~SomeRuleMatches(r.path)
              /\ ~UnderNodeModules(r.path)
              /\ ~include_tests => ~IsTestPath(r.path, r.name)
        /\ include_tests =>
              \A f \in fs_files :
                 ( /\ IsTestPath(JoinPath(f.parts), f.parts[Len(f.parts)])
                   /\ ExtensionSupported(f)
                   /\ ~SomeRuleMatches(JoinPath(f.parts))
                   /\ Accessible(Parent(f.parts))
                   /\ f.readable /\ ~TooLarge(f) ) => HasRecord(f)

\* C5: after analyze() every record of 'files' is of a file whose
\* lower-cased extension is in the language table and whose root-relative
\* path the rule list does not exclude (no rule matches it, or the last rule
\* that matches it is a negation); no record's path begins with
\* node_modules/; with include_tests False no record's path begins with
\* test/ or tests/ and no record's name has one of the six test forms; with
\* include_tests True a readable test file of at most 100000 characters, in
\* a directory that can be walked, that the rule list does not exclude has a
\* record.
C5_OnlyEligibleFiles ==
    apc = "returned" =>
        /\ \A r \in Records :
              /\ InSupported(r.extension)
              /\ r.extension = lower(suffix(r.name))
              /\ ~LastRuleExcludes(r.path)
              /\ ~UnderNodeModules(r.path)
              /\ ~include_tests => ~IsTestPath(r.path, r.name)
        /\ include_tests =>
              \A f \in fs_files :
                 ( /\ IsTestPath(JoinPath(f.parts), f.parts[Len(f.parts)])
                   /\ ExtensionSupported(f)
                   /\ ~LastRuleExcludes(JoinPath(f.parts))
                   /\ Accessible(Parent(f.parts))
                   /\ f.readable /\ ~TooLarge(f) ) => HasRecord(f)

\* analyze() has returned for a root that holds README.md and a file below
\* node_modules/, run with --exclude '*.md' '!README.md': README.md, which
\* the rule '*.md' matches, has a record and the other file has none
C5_Witness ==
    /\ apc = "returned"
    /\ \E f \in fs_files : f.parts[1] = n_node_modules /\ ~HasRecord(f)
    /\ \E r \in Records : r.path = readme_path /\ SomeRuleMatches(r.path)

\* analyze() has returned with include_tests True and a record for
\* tests/test_app.py
C5_WitnessTests ==
    /\ apc = "returned" /\ include_tests
    /\ \E r \in Records : FirstPart(r.path) = n_tests /\ IsTestName(r.name)

\* C6 as the specification words it: for every eligible file that can be
\* read, a record is created when its size is at most 100,000 bytes and none
\* when it is 100,001 bytes or more.
C6_ByteCutoff ==
    apc = "returned" =>
        \A f \in fs_files :
            f \in ReadableCodeFiles =>
                /\ ByteSize(f) <= LargeFileLimit => HasRecord(f)
                /\ ByteSize(f) >= LargeFileLimit + 1 => ~HasRecord(f)

\* what the code does instead: the cutoff is on the number of characters
C6_CharacterCutoff ==
    apc = "returned" =>
        \A f \in fs_files :
            f \in ReadableCodeFiles =>
                (HasRecord(f) <=> ContentLength(f) <= LargeFileLimit)

\* analyze() has returned a record for a file of 100,001 bytes
C6_Witness ==
    /\ apc = "returned"
    /\ \E f \in fs_files : ByteSize(f) = LargeFileLimit + 1 /\ HasRecord(f)

\* the key of an item without the '/' that marks a directory
EntryName(item) ==
    IF item.file THEN item.name ELSE SubSeq(item.name, 1, Len(item.name) - 1)

\* the root-relative paths of the items of a tree, at every level
RECURSIVE TreePaths(_, _)
TreePaths(tree, prefix) ==
    UNION { {Append(prefix, EntryName(tree[i]))} \cup
            TreePaths(tree[i].tree, Append(prefix, EntryName(tree[i])))
            : i \in 1..Len(tree) }

\* the items of a tree, at every level
RECURSIVE TreeItems(_)
TreeItems(tree) ==
    UNION { {tree[i]} \cup TreeItems(tree[i].tree) : i \in 1..Len(tree) }

StructureBuilt == apc \in {"structure", "returned"}

\* C9 as the specification words it: no item of the tree, at any level, is of
\* a path that an exclusion rule matches, and node_modules/ has an empty
\* subtree.
C9_NoMatchedEntry ==
    StructureBuilt =>
        /\ \A e \in TreePaths(structure, << >>) : ~SomeRuleMatches(JoinPath(e))
        /\ \A item \in TreeItems(structure) :
              item.name = n_node_modules \o <<"/">> => item.tree = << >>

\* C9: no item of the tree returned by _get_directory_structure, at any
\* level, is of a path the rule list excludes (a rule matches it and the
\* last rule that does is not a negation), so nothing below an excluded
\* directory is listed; the root's node_modules/, whose contents the rule
\* 'node_modules/**' excludes, appears with an empty subtree.
C9_TreeRespectsRules ==
    StructureBuilt =>
        /\ \A e \in TreePaths(structure, << >>) : ~LastRuleExcludes(JoinPath(e))
        /\ \A i \in 1..Len(structure) :
              structure[i].name = n_node_modules \o <<"/">>
                 => structure[i].tree = << >>

\* the tree is built for a root that holds README.md and a file below
\* node_modules/, run with --exclude '*.md' '!README.md': README.md, which
\* the rule '*.md' matches, is listed and node_modules/ is listed empty
C9_Witness ==
    /\ StructureBuilt
    /\ \E f \in fs_files : f.parts[1] = n_node_modules
    /\ \E i \in 1..Len(structure) :
          /\ structure[i].name = n_node_modules \o <<"/">>
          /\ structure[i].tree = << >>
    /\ \E i \in 1..Len(structure) :
          /\ structure[i].name = readme_path
          /\ SomeRuleMatches(readme_path)

\* the subtree of directory d in a tree, << >> when d is not listed
RECURSIVE TreeAt(_, _)
TreeAt(tree, d) ==
    IF d = << >> THEN tree
    ELSE LET S == {i \in 1..Len(tree) :
                      ~tree[i].file /\ EntryName(tree[i]) = Head(d)}
         IN  IF S = {} THEN << >>
             ELSE TreeAt(tree[CHOOSE i \in S : TRUE].tree, Tail(d))

\* C10 as the specification words it: analyze() does not raise, whatever
\* files cannot be read and whatever directory denies a permission; a file
\* that cannot be read is not counted and has no record, a directory that
\* denies a permission has an empty subtree, and every other eligible file
\* of at most 100000 characters, in a directory that can be walked, has a
\* record.
C10_NeverRaises ==
    /\ apc # "raised"
    /\ apc = "returned" =>
          /\ \A f \in fs_files : ~f.readable => ~HasRecord(f)
          /\ project_info.total_files = Cardinality(ReadableCodeFiles)
          /\ \A r \in fs_perm : TreeAt(structure, r.dir) = << >>
          /\ \A f \in ReadableCodeFiles : ~TooLarge(f) => HasRecord(f)

\* what holds of the runs that do return: the files that cannot be read are
\* left out and the others are kept
C10_ReturnedRunsOmitFailures ==
    apc = "returned" =>
          /\ \A f \in fs_files : ~f.readable => ~HasRecord(f)
          /\ project_info.total_files = Cardinality(ReadableCodeFiles)
          /\ \A r \in fs_perm : TreeAt(structure, r.dir) = << >>
          /\ \A f \in ReadableCodeFiles : ~TooLarge(f) => HasRecord(f)

\* analyze() has raised: a directory can be listed but not searched
C10_Witness ==
    /\ apc = "raised"
    /\ \E r \in fs_perm : r.mode = "nosearch"

\* analyze() has returned although a file could not be read: that file has
\* no record and another file has one
C10_WitnessUnreadableFile ==
    /\ apc = "returned"
    /\ \E f \in fs_files : IsCodeFile(f.parts) /\ ~f.readable /\ ~HasRecord(f)
    /\ Records # {}

\* analyze() has returned although a directory could not be listed
C10_WitnessUnlistableDirectory ==
    /\ apc = "returned"
    /\ \E r \in fs_perm : r.mode = "nolist"

\* the items of every dict of the tree are in ascending order of their names
RECURSIVE TreeSorted(_)
TreeSorted(tree) ==
    /\ \A i \in 1..(Len(tree) - 1) :
          StrLess(EntryName(tree[i]), EntryName(tree[i + 1]))
    /\ \A i \in 1..Len(tree) : TreeSorted(tree[i].tree)

\* the entries, of at most `depth` parts, that the rule list excludes
ExcludedEntries(depth) ==
    {e \in Entries : Len(e) <= depth /\ LastRuleExcludes(JoinPath(e))}

\* neither the entry nor a directory above it is in `excluded`
NoneExcluded(e, excluded) ==
    \A k \in 1..Len(e) : SubSeq(e, 1, k) \notin excluded

\* the tree holds `paths`, all of at most 3 parts, and every entry of at most
\* 3 parts that is clear of `excluded`, in a directory that can be listed
HoldsTheFirstLevels(paths, excluded) ==
    /\ \A e \in paths : Len(e) <= 3 /\ e \in Entries
    /\ \A e \in Entries :
          (Len(e) <= 3 /\ NoneExcluded(e, excluded) /\ Accessible(Parent(e)))
             => e \in paths
    /\ \A e \in paths : (Len(e) = 3 /\ e \in Dirs) => TreeAt(structure, e) = << >>

\* C11: the tree nests at most 3 levels deep; the entries of the root, of
\* its children and of its grandchildren that are not excluded, in
\* directories that can be listed, are all enumerated, each dict in sorted
\* order of the names; a directory at the third level is recorded by its
\* parent with an empty subtree, whatever it contains.
C11_DepthBoundedSortedTree ==
    StructureBuilt =>
        /\ \A paths \in {TreePaths(structure, << >>)} :
              \A excluded \in {ExcludedEntries(3)} :
                 HoldsTheFirstLevels(paths, excluded)
        /\ TreeSorted(structure)

\* the tree is built for a root that holds src/app.py and src/gen/deep/x.py:
\* src/ lists app.py before gen/, and src/gen/deep/ is recorded empty although
\* x.py below it is not excluded
C11_Witness ==
    /\ StructureBuilt
    /\ Len(TreeAt(structure, <<n_src>>)) >= 2
    /\ \E f \in fs_files :
          /\ Len(f.parts) = 4
          /\ NoneExcluded(f.parts, ExcludedEntries(4))
          /\ SubSeq(f.parts, 1, 3) \in TreePaths(structure, << >>)
          /\ TreeAt(structure, SubSeq(f.parts, 1, 3)) = << >>

\* the eligible files the walk reaches: supported extension, not excluded by
\* the rule list, in a directory that can be walked
EligibleFiles ==
    {f \in fs_files :
        /\ ExtensionSupported(f)
        /\ ~LastRuleExcludes(JoinPath(f.parts))
        /\ Accessible(Parent(f.parts))}

\* the eligible files whose content exceeds the threshold
OversizedFiles ==
    {f \in fs_files : ContentLength(f) > 100000 /\ f \in EligibleFiles}

RECURSIVE SumOfCounts(_, _)
SumOfCounts(counts, keys) ==
    IF keys = {} THEN 0
    ELSE LET k == CHOOSE x \in keys : TRUE
         IN  counts[k] + SumOfCounts(counts, keys \ {k})

RECURSIVE SumOfLines(_)
SumOfLines(S) ==
    IF S = {} THEN 0
    ELSE LET f == CHOOSE x \in S : TRUE
         IN  f.lines + SumOfLines(S \ {f})

NoReadFailures == \A f \in fs_files : f.readable

\* total_files and total_lines count the files of `eligible`, and the
\* records are those of them that are not in `oversized`
CountsAgree(eligible, oversized) ==
    /\ project_info.total_files =
          SumOfCounts(project_info.languages, DOMAIN project_info.languages)
    /\ project_info.total_files = Len(analysis_files) + Cardinality(oversized)
    /\ project_info.total_files = Cardinality(eligible)
    /\ project_info.total_lines = SumOfLines(eligible)
    /\ project_info.total_files >= Len(analysis_files)
    /\ project_info.total_files = Len(analysis_files) <=> oversized = {}

\* C16: when no file fails to be read, after analyze() total_files is the sum
\* of the per-language counts and is the number of records plus the number
\* of eligible files over the 100,000 threshold; those files are counted in
\* total_files and their lines in total_lines; so total_files >= len(files),
\* with equality exactly when no eligible file is oversized.
C16_TotalFilesCountsOversized ==
    (apc = "returned" /\ NoReadFailures) =>
        \A eligible \in {EligibleFiles} :
           CountsAgree(eligible, {f \in eligible : ContentLength(f) > 100000})

\* analyze() has returned for a root with a readable eligible file of 100,001
\* characters and another eligible file: two files counted, one record
C16_Witness ==
    /\ apc = "returned" /\ NoReadFailures
    /\ OversizedFiles # {}
    /\ Len(analysis_files) = 1
    /\ project_info.total_files = 2

\* file_info.get('type', 'unknown'), as the generator reads the tag
type_of(file_info) == Get(file_info, "type", "unknown")

ClassificationTags ==
    {"source", "test", "documentation", "configuration", "unknown"}

EnrichmentKeys == {"imports", "classes", "functions"}

\* the extensions of the Python and JS/TS families
EnrichedExtensions ==
    { <<".","p","y">>, <<".","j","s">>, <<".","t","s">>,
      <<".","j","s","x">>, <<".","t","s","x">> }

MarkdownExtension == <<".","m","d">>

ConfigurationExtensions ==
    { <<".","y","m","l">>, <<".","y","a","m","l">>, <<".","j","s","o","n">>,
      <<".","t","o","m","l">> }

\* the record is of none of the languages that get a tag
IsOtherLanguage(r) ==
    r.extension \notin
        EnrichedExtensions \cup {MarkdownExtension} \cup ConfigurationExtensions

\* C15 as the specification words it: every record carries a tag of the five,
\* and a record of another language is tagged 'source' and has no imports,
\* classes or functions.
C15_OthersTaggedSource ==
    apc = "returned" =>
        \A r \in Records :
            /\ "type" \in DOMAIN r
            /\ Get(r, "type", "none") \in ClassificationTags
            /\ IsOtherLanguage(r) =>
                  /\ Get(r, "type", "none") = "source"
                  /\ DOMAIN r \cap EnrichmentKeys = {}

\* C15: a record of the Python or JS/TS families carries the tag 'source' or
\* 'test' and its imports, classes and functions; a Markdown record carries
\* 'documentation' and a YAML/JSON/TOML record 'configuration'; a record of
\* any other language carries no tag at all, and no imports, classes or
\* functions, and the generator reads its missing tag as 'unknown'.
C15_TagsByLanguage ==
    apc = "returned" =>
        \A r \in Records :
            /\ type_of(r) \in ClassificationTags
            /\ r.extension \in EnrichedExtensions =>
                  /\ type_of(r) \in {"source", "test"}
                  /\ EnrichmentKeys \subseteq DOMAIN r
            /\ r.extension = MarkdownExtension =>
                  type_of(r) = "documentation"
            /\ r.extension \in ConfigurationExtensions =>
                  type_of(r) = "configuration"
            /\ IsOtherLanguage(r) =>
                  /\ DOMAIN r \cap (EnrichmentKeys \cup {"type"}) = {}
                  /\ type_of(r) = "unknown"

\* analyze() has returned a record for docs/NOTES.TXT, which has no tag, and
\* one for app.yml
C15_Witness ==
    /\ apc = "returned"
    /\ \E r \in Records : r.language = "text" /\ "type" \notin DOMAIN r
    /\ \E r \in Records : r.language = "yaml"

\* ---------------------------------------------------------------------------
\* analyze(): _get_dependencies, _get_readme_content, _get_config_files
\* ---------------------------------------------------------------------------

\* names of entries of the root directory
r_README_rst           == <<"R","E","A","D","M","E",".","r","s","t">>
r_README_txt           == <<"R","E","A","D","M","E",".","t","x","t">>
r_README               == <<"R","E","A","D","M","E">>
r_requirements_txt     == <<"r","e","q","u","i","r","e","m","e","n","t","s",".","t","x","t">>
r_pyproject_toml       == <<"p","y","p","r","o","j","e","c","t",".","t","o","m","l">>
r_setup_py             == <<"s","e","t","u","p",".","p","y">>
r_Pipfile              == <<"P","i","p","f","i","l","e">>
r_package_json         == <<"p","a","c","k","a","g","e",".","j","s","o","n">>
r_docker_compose_yml   == <<"d","o","c","k","e","r","-","c","o","m","p","o","s","e",".","y","m","l">>
r_Dockerfile           == <<"D","o","c","k","e","r","f","i","l","e">>
r_env                  == <<".","e","n","v">>
r_long_json            == <<"l","o","n","g",".","j","s","o","n">>
r_conf                 == <<"c","o","n","f">>
r_ci_yml               == <<"c","i",".","y","m","l">>

\* dependency names
d_flask      == <<"f","l","a","s","k">>
d_requests   == <<"r","e","q","u","e","s","t","s">>
d_express    == <<"e","x","p","r","e","s","s">>
d_jest       == <<"j","e","s","t">>

\* file contents: "flask\n# dev\n\n requests \n", and one text per README
t_requirements   == <<"f","l","a","s","k",NL,"#"," ","d","e","v",NL,NL," ","r","e","q","u","e","s","t","s"," ",NL>>
t_readme_md      == <<"#"," ","m","d",NL>>
t_readme_rst     == <<"r","s","t",NL>>
t_readme_txt     == <<"t","x","t",NL>>
t_readme_plain   == <<"p","l","a","i","n",NL>>
t_toml           == <<"d","e","p","e","n","d","e","n","c","i","e","s"," ","="," ","[","\"","r","e","q","u","e","s","t","s","\"","]",NL>>
t_setup          == <<"i","n","s","t","a","l","l","_","r","e","q","u","i","r","e","s","=","[","\"","r","e","q","u","e","s","t","s","\"","]",NL>>
t_pipfile        == <<"[","p","a","c","k","a","g","e","s","]",NL,"r","e","q","u","e","s","t","s"," ","="," ","\"","*","\"",NL>>
t_package        == <<"{","\"","d","e","p","e","n","d","e","n","c","i","e","s","\"",":"," ","{","\"","e","x","p","r","e","s","s","\"",":"," ","\"","1","\"","}",","," ","\"","d","e","v","D","e","p","e","n","d","e","n","c","i","e","s","\"",":"," ","{","\"","j","e","s","t","\"",":"," ","\"","2","\"","}","}",NL>>
t_broken         == <<"{","\"","d","e","p","e","n","d","e","n","c","i","e","s","\"",":"," ",NL>>
t_yml            == <<"a",":"," ","1",NL>>
t_make           == <<"a","l","l",":",NL>>
t_env            == <<"K","E","Y","=","1",NL>>
t_docker         == <<"F","R","O","M"," ","x",NL>>

\* the content of a file longer than the preview kept of a configuration file
ContentLimit == 1000
LongText == [i \in 1..(ContentLimit + 1) |-> "x"]

\* s[:n]
Slice(s, n) == IF Len(s) <= n THEN s ELSE SubSeq(s, 1, n)

\* An entry of the root directory: its name, whether it is a regular file or
\* a directory, whether open() succeeds, whether its bytes are valid UTF-8,
\* the characters its bytes decode to, and, for a directory, the names of
\* the files in it.
RootEntry(name, kind, readable, utf8, text, children) ==
    [name |-> name, kind |-> kind, readable |-> readable, utf8 |-> utf8,
     text |-> text, children |-> children]

RootFile(name, text) == RootEntry(name, "file", TRUE, TRUE, text, {})

RootUniverse ==
    { RootFile(n_README_md, t_readme_md),
      RootEntry(n_README_md, "file", TRUE, FALSE, t_readme_md, {}),
      RootFile(r_README_rst, t_readme_rst),
      RootFile(r_README_txt, t_readme_txt),
      RootFile(r_README, t_readme_plain),
      RootFile(r_requirements_txt, t_requirements),
      RootEntry(r_requirements_txt, "file", FALSE, TRUE, t_requirements, {}),
      RootFile(r_pyproject_toml, t_toml),
      RootFile(r_setup_py, t_setup),
      RootFile(r_Pipfile, t_pipfile),
      RootFile(r_package_json, t_package),
      RootFile(r_package_json, t_broken),
      RootFile(r_docker_compose_yml, t_yml),
      RootFile(n_app_yml, t_yml),
      RootEntry(n_app_yml, "file", FALSE, TRUE, t_yml, {}),
      RootFile(r_Dockerfile, t_docker),
      RootFile(n_Makefile, t_make),
      RootFile(r_env, t_env),
      RootFile(r_long_json, LongText),
      RootEntry(r_conf, "dir", TRUE, TRUE, << >>, {n_app_yml}),
      RootEntry(r_ci_yml, "dir", TRUE, TRUE, << >>, {r_env}) }

\* the root directories of the model: a name names one entry
RootDirectories ==
    {S \in SUBSET RootUniverse :
        /\ Cardinality(S) <= MaxRootFiles
        /\ \A e1, e2 \in S : e1.name = e2.name => e1 = e2}

\* (self.root_path / name).exists()
exists(name) == \E e \in root_entries : e.name = name

RootEntryOf(name) == CHOOSE e \in root_entries : e.name = name

\* is_file()
is_file(e) == e.kind = "file"

\* read_text() raises: a directory, a file that cannot be opened, or, unless
\* errors='ignore' is given, bytes that are not valid UTF-8
ReadRaises(e, ignore_errors) ==
    \/ e.kind = "dir"
    \/ ~e.readable
    \/ ~ignore_errors /\ ~e.utf8

\* json.loads(text) on the texts of the model: the keys of the
\* 'dependencies' and 'devDependencies' objects of the document, or a
\* JSONDecodeError
json_loads(text) ==
    IF text = t_package
    THEN [raises |-> FALSE, dependencies |-> <<d_express>>,
          devDependencies |-> <<d_jest>>]
    ELSE [raises |-> TRUE, dependencies |-> << >>, devDependencies |-> << >>]

\* [line.strip() for line in content.splitlines()
\*  if line.strip() and not line.startswith('#')]
RequirementLines(text) ==
    LET kept == SelectSeq(split(text, NL),
                          LAMBDA line : /\ strip(line) # << >>
                                        /\ Head(line) # "#")
    IN  [i \in 1..Len(kept) |-> strip(kept[i])]

\* the dependency keys of a package.json
PackageDeps(e) ==
    IF ReadRaises(e, FALSE) THEN << >>
    ELSE LET data == json_loads(e.text)
         IN  IF data.raises THEN << >>
             ELSE data.dependencies \o data.devDependencies

\* _parse_python_deps(file_path): only requirements.txt is parsed (the branch
\* for the name package.json is never taken from _get_dependencies); any
\* other manifest, and any exception, gives []
_parse_python_deps(name) ==
    LET e == RootEntryOf(name)
    IN  IF name = r_requirements_txt
        THEN IF ReadRaises(e, FALSE) THEN << >> ELSE RequirementLines(e.text)
        ELSE IF name = r_package_json THEN PackageDeps(e)
        ELSE << >>

\* _parse_js_deps(file_path)
_parse_js_deps(name) == PackageDeps(RootEntryOf(name))

\* the manifests _get_dependencies looks for, in its order
PythonManifests ==
    <<r_requirements_txt, r_pyproject_toml, r_setup_py, r_Pipfile>>

\* the index of the manifest the loop breaks at, 0 when none exists
FirstManifest ==
    LET found == {i \in 1..Len(PythonManifests) : exists(PythonManifests[i])}
    IN  IF found = {} THEN 0
        ELSE CHOOSE i \in found : \A j \in found : i <= j

\* _get_dependencies(): the dict `deps`
_get_dependencies ==
    LET keys == (IF FirstManifest # 0 THEN {"python"} ELSE {})
                \cup (IF exists(r_package_json) THEN {"javascript"} ELSE {})
    IN  [k \in keys |->
            IF k = "python"
            THEN _parse_python_deps(PythonManifests[FirstManifest])
            ELSE _parse_js_deps(r_package_json)]

\* the names _get_readme_content tries, in its order
ReadmeNames == <<n_README_md, r_README_rst, r_README_txt, r_README>>

\* a plausible slip: a `return None` in the except branch, so that the first
\* existing name decides
RECURSIVE ReadmeLoopFirstExisting(_)
ReadmeLoopFirstExisting(i) ==
    IF i > Len(ReadmeNames) THEN << >>
    ELSE IF exists(ReadmeNames[i])
         THEN IF ReadRaises(RootEntryOf(ReadmeNames[i]), FALSE) THEN << >>
              ELSE <<RootEntryOf(ReadmeNames[i]).text>>
         ELSE ReadmeLoopFirstExisting(i + 1)

readme_first_existing == ReadmeLoopFirstExisting(1)

\* the loop of _get_readme_content from name i on: the except branch logs
\* and the loop goes on to the next name
RECURSIVE ReadmeLoop(_)
ReadmeLoop(i) ==
    IF i > Len(ReadmeNames) THEN << >>
    ELSE IF /\ exists(ReadmeNames[i])
            /\ ~ReadRaises(RootEntryOf(ReadmeNames[i]), FALSE)
         THEN <<RootEntryOf(ReadmeNames[i]).text>>
         ELSE ReadmeLoop(i + 1)

\* _get_readme_content(): << >> is None
_get_readme_content == ReadmeLoop(1)

config_patterns ==
    << <<"*",".","y","m","l">>, <<"*",".","y","a","m","l">>,
       <<"*",".","j","s","o","n">>, <<"*",".","t","o","m","l">>,
       <<"*",".","i","n","i">>, <<"*",".","c","f","g">>,
       r_Dockerfile, r_docker_compose_yml, n_Makefile,
       <<".","e","n","v","*">> >>

\* the orders in which the root directory can list its entries
ListingOrders ==
    {s \in [1..Cardinality(root_entries) -> root_entries] :
        Range(s) = root_entries}

\* self.root_path.glob(pattern), the directory listing its entries in the
\* given order: the names of the root directory the pattern matches as
\* fnmatch does (a leading dot is matched by '*')
glob(pattern, listing) ==
    SelectSeq(listing, LAMBDA e : SegMatch(pattern, e.name))

\* the entries appended for one pattern
ConfigEntries(pattern, listing) ==
    LET read == SelectSeq(glob(pattern, listing),
                          LAMBDA e : is_file(e) /\ ~ReadRaises(e, TRUE))
    IN  [i \in 1..Len(read) |->
            [name |-> read[i].name, path |-> read[i].name,
             content |-> Slice(read[i].text, ContentLimit)]]

\* _get_config_files(): one pass over the patterns, in their order
_get_config_files(listing) ==
    Flatten([i \in 1..Len(config_patterns) |->
                ConfigEntries(config_patterns[i], listing)])

\* 'dependencies': self._get_dependencies()
CallGetDependencies ==
    /\ rpc = "start"
    /\ dependencies' = _get_dependencies
    /\ rpc' = "dependencies"
    /\ UNCHANGED <<root_entries, readme, config_files>>

\* 'readme': self._get_readme_content()
CallGetReadmeContent ==
    /\ rpc = "dependencies"
    /\ readme' = _get_readme_content
    /\ rpc' = "readme"
    /\ UNCHANGED <<root_entries, dependencies, config_files>>

\* 'config_files': self._get_config_files(), after which analyze() returns
CallGetConfigFiles ==
    /\ rpc = "readme"
    /\ \E listing \in ListingOrders :
          config_files' = _get_config_files(listing)
    /\ rpc' = "returned"
    /\ UNCHANGED <<root_entries, dependencies, readme>>

InitRoot ==
    /\ rpc = "start"
    /\ root_entries \in RootDirectories
    /\ dependencies = << >> /\ readme = << >> /\ config_files = << >>
    /\ KeyIdle /\ PyIdle /\ AnalyzerIdle /\ GenIdle

RootNext ==
    \/ CallGetDependencies /\ UNCHANGED <<keyVars, pyVars, analyzerVars, genVars>>
    \/ CallGetReadmeContent /\ UNCHANGED <<keyVars, pyVars, analyzerVars, genVars>>
    \/ CallGetConfigFiles /\ UNCHANGED <<keyVars, pyVars, analyzerVars, genVars>>

SpecRoot == InitRoot /\ [][RootNext]_vars

\* the candidates of _get_readme_content that exist, and those of them that
\* can be read and decoded
ExistingReadmes == {i \in 1..Len(ReadmeNames) : exists(ReadmeNames[i])}

ReadableReadmes ==
    {i \in ExistingReadmes : ~ReadRaises(RootEntryOf(ReadmeNames[i]), FALSE)}

Lowest(S) == CHOOSE i \in S : \A j \in S : i <= j

ReadmeReturned == rpc \in {"readme", "returned"}

\* C12 as stated: the first candidate that exists decides; its content is the
\* result, and when it cannot be read or decoded the result is None even if
\* a later candidate exists.
C12_FirstExistingDecides ==
    ReadmeReturned =>
        IF ExistingReadmes = {} THEN readme = << >>
        ELSE LET first == RootEntryOf(ReadmeNames[Lowest(ExistingReadmes)])
             IN  IF ReadRaises(first, FALSE) THEN readme = << >>
                 ELSE readme = <<first.text>>

\* C12 amended: the result is the content of the first candidate, in the
\* order README.md, README.rst, README.txt, README, that exists and can be
\* read and decoded; a candidate that exists but cannot be read is passed
\* over; the result is None when no candidate can be read, and the call
\* returns in every case.
C12_FirstReadableCandidate ==
    /\ ReadmeReturned =>
          IF ReadableReadmes = {} THEN readme = << >>
          ELSE readme =
                 <<RootEntryOf(ReadmeNames[Lowest(ReadableReadmes)]).text>>
    /\ rpc = "dependencies" => ENABLED CallGetReadmeContent

\* README.md cannot be decoded and a later candidate is returned
C12_Witness ==
    /\ ReadmeReturned
    /\ exists(n_README_md)
    /\ ReadRaises(RootEntryOf(n_README_md), FALSE)
    /\ Lowest(ExistingReadmes) # Lowest(ReadableReadmes \cup {5})
    /\ readme # << >>

\* the dependency names a manifest of the model declares
Declared(e) ==
    IF e.text = t_requirements THEN <<d_flask, d_requests>>
    ELSE IF e.text \in {t_toml, t_setup, t_pipfile} THEN <<d_requests>>
    ELSE << >>

DependenciesReturned == rpc \in {"dependencies", "readme", "returned"}

\* C13 as stated: 'python' is present exactly when one of requirements.txt,
\* pyproject.toml, setup.py, Pipfile exists and then lists the dependency
\* names the first of them declares; 'javascript' is present exactly when
\* package.json exists.
C13_DeclaredDependencies ==
    DependenciesReturned =>
        /\ "python" \in DOMAIN dependencies <=> FirstManifest # 0
        /\ "javascript" \in DOMAIN dependencies <=> exists(r_package_json)
        /\ FirstManifest # 0 =>
              \A e \in {RootEntryOf(PythonManifests[FirstManifest])} :
                  ~ReadRaises(e, FALSE) =>
                      dependencies["python"] = Declared(e)

\* what the code does: the keys are as stated, and 'python' holds the lines
\* of requirements.txt when that is the first manifest, nothing otherwise
C13_OnlyRequirementsParsed ==
    DependenciesReturned =>
        /\ "python" \in DOMAIN dependencies <=> FirstManifest # 0
        /\ "javascript" \in DOMAIN dependencies <=> exists(r_package_json)
        /\ FirstManifest = 1 =>
              \A e \in {RootEntryOf(r_requirements_txt)} :
                  ~ReadRaises(e, FALSE) =>
                      dependencies["python"] = Declared(e)
        /\ FirstManifest > 1 => dependencies["python"] = << >>

\* a manifest other than requirements.txt is the first one, it declares a
\* dependency, and 'python' is empty
C13_Witness ==
    /\ DependenciesReturned
    /\ FirstManifest > 1
    /\ Declared(RootEntryOf(PythonManifests[FirstManifest])) # << >>
    /\ dependencies["python"] = << >>

\* the regular files of the root directory whose name matches a pattern and
\* which can be read
MatchesConfigPattern(name) ==
    \E i \in 1..Len(config_patterns) : SegMatch(config_patterns[i], name)

ConfigCandidates ==
    {e \in root_entries :
        is_file(e) /\ ~ReadRaises(e, TRUE) /\ MatchesConfigPattern(e.name)}

EntriesNamed(name) ==
    {i \in 1..Len(config_files) : config_files[i].name = name}

\* C14 as stated: one entry per regular file of the root directory that
\* matches a pattern, also when it matches several; nothing else is listed;
\* no content is longer than 1000 characters.
C14_OneEntryPerFile ==
    rpc = "returned" =>
        /\ \A e \in ConfigCandidates : Cardinality(EntriesNamed(e.name)) = 1
        /\ \A i \in 1..Len(config_files) :
              /\ \E e \in ConfigCandidates : e.name = config_files[i].name
              /\ Len(config_files[i].content) <= ContentLimit

\* what the code does: one entry per pattern the file's name matches
PatternsMatching(name) ==
    {i \in 1..Len(config_patterns) : SegMatch(config_patterns[i], name)}

C14_OneEntryPerMatch ==
    rpc = "returned" =>
        /\ \A e \in ConfigCandidates :
              Cardinality(EntriesNamed(e.name))
                  = Cardinality(PatternsMatching(e.name))
        /\ \A i \in 1..Len(config_files) :
              /\ \E e \in ConfigCandidates : e.name = config_files[i].name
              /\ Len(config_files[i].content) <= ContentLimit

\* docker-compose.yml is listed twice, and a long file is cut
C14_Witness ==
    /\ rpc = "returned"
    /\ Cardinality(EntriesNamed(r_docker_compose_yml)) = 2

C14_WitnessLongFile ==
    /\ rpc = "returned"
    /\ \E i \in 1..Len(config_files) :
          /\ config_files[i].name = r_long_json
          /\ Len(config_files[i].content) = ContentLimit

\* ---------------------------------------------------------------------------
\* DocumentationGenerator.generate_documentation
\* ---------------------------------------------------------------------------

\* the `description` of the _call_openai of each section step, in the order
\* generate_documentation appends the sections
SectionDescriptions ==
    << "Generate project overview",
       "Generate architecture documentation",
       "Generate installation documentation",
       "Generate usage documentation",
       "Generate API reference",
       "Generate configuration documentation",
       "Generate development documentation" >>

\* The strings a section step returns: "", the content of the response to
\* the call with the given description, or
\* f"## {description}\n\nError generating this section: {e}"
EmptyString == [kind |-> "empty", description |-> ""]
Generated(description) == [kind |-> "content", description |-> description]
Placeholder(description) == [kind |-> "error", description |-> description]

\* api_files of _generate_api_reference
api_files(files) ==
    SelectSeq(files, LAMBDA f : \/ Get(f, "classes", << >>) # << >>
                                \/ Get(f, "functions", << >>) # << >>)

\* the section steps that return "" before building a prompt
ReturnsEarly(i, analysis) ==
    \/ i = 2 /\ _get_key_files(analysis.files) = << >>
    \/ i = 5 /\ api_files(analysis.files) = << >>
    \/ i = 6 /\ analysis.config_files = << >>

\* What happens inside the try of _call_openai: an exception (from the
\* tokenizer, the request, or the reading of the response), or a response
\* with its usage.total_tokens.
ApiOutcomes ==
    {[ok |-> FALSE, usage |-> 0]}
    \cup {[ok |-> TRUE, usage |-> u] : u \in 1..MaxUsage}

\* a plausible slip: `=` for `+=`
TokensReplaced(total, outcome) ==
    IF outcome.ok THEN outcome.usage ELSE total

\* self.total_tokens += response.usage.total_tokens, not reached when an
\* exception is raised
TokensAfter(total, outcome) ==
    IF outcome.ok THEN total + outcome.usage ELSE total

\* the return value of _call_openai
_call_openai(description, outcome) ==
    IF outcome.ok THEN Generated(description) ELSE Placeholder(description)

\* sections.append(self._generate_...(analysis)) for the i-th section
SectionStep(i) ==
    /\ gpc = i
    /\ IF ReturnsEarly(i, gen_analysis)
       THEN /\ sections' = Append(sections, EmptyString)
            /\ UNCHANGED <<total_tokens, api_calls>>
       ELSE \E outcome \in ApiOutcomes :
               /\ sections' = Append(sections,
                                 _call_openai(SectionDescriptions[i], outcome))
               /\ total_tokens' = TokensAfter(total_tokens, outcome)
               /\ api_calls' = Append(api_calls,
                                 [description |-> SectionDescriptions[i],
                                  ok |-> outcome.ok, usage |-> outcome.usage])
    /\ gpc' = i + 1
    /\ UNCHANGED <<gen_analysis, documentation>>

_generate_overview == SectionStep(1)
_generate_architecture == SectionStep(2)
_generate_installation == SectionStep(3)
_generate_usage == SectionStep(4)
_generate_api_reference == SectionStep(5)
_generate_configuration == SectionStep(6)
_generate_development == SectionStep(7)

\* filter(None, sections); the joined string is its parts in order
NonEmpty(ss) == SelectSeq(ss, LAMBDA s : s # EmptyString)

\* documentation = '\n\n'.join(filter(None, sections)); return documentation
JoinSections ==
    /\ gpc = Len(SectionDescriptions) + 1
    /\ documentation' = <<NonEmpty(sections)>>
    /\ gpc' = gpc + 1
    /\ UNCHANGED <<gen_analysis, sections, total_tokens, api_calls>>

KeyFileNamed(name) == CHOOSE f \in KeyPool : f["name"] = name

\* the analyses handed to generate_documentation: no file at all; a file
\* that is no key file; a key file without classes or functions; a file with
\* a class; without and with a configuration file
GenAnalyses ==
    LET cfg == [name |-> n_app_yml, path |-> n_app_yml, content |-> t_yml]
    IN  { [files |-> << >>, config_files |-> << >>],
          [files |-> <<KeyFileNamed(n_README_md)>>, config_files |-> <<cfg>>],
          [files |-> <<KeyFileNamed(<<"m","a","i","n",".","p","y">>)>>,
           config_files |-> << >>],
          [files |-> <<KeyFileNamed(<<"u","t","i","l","s",".","p","y">>)>>,
           config_files |-> <<cfg>>] }

\* a new generator (total_tokens = 0) entering generate_documentation
InitGen ==
    /\ gpc = 1
    /\ gen_analysis \in GenAnalyses
    /\ sections = << >>
    /\ total_tokens = 0
    /\ api_calls = << >>
    /\ documentation = << >>
    /\ KeyIdle /\ PyIdle /\ AnalyzerIdle /\ RootIdle

otherVars == <<keyVars, pyVars, analyzerVars, rootVars>>

GenNext ==
    \/ _generate_overview /\ UNCHANGED otherVars
    \/ _generate_architecture /\ UNCHANGED otherVars
    \/ _generate_installation /\ UNCHANGED otherVars
    \/ _generate_usage /\ UNCHANGED otherVars
    \/ _generate_api_reference /\ UNCHANGED otherVars
    \/ _generate_configuration /\ UNCHANGED otherVars
    \/ _generate_development /\ UNCHANGED otherVars
    \/ JoinSections /\ UNCHANGED otherVars

\* generate_documentation is straight-line code and a call of the API
\* returns or raises: a step that can be taken is taken
SpecGen == InitGen /\ [][GenNext]_vars /\ WF_vars(GenNext)

\* the section steps among the first n that call the API
CallingSections(n) ==
    SelectSeq([i \in 1..n |-> i], LAMBDA i : ~ReturnsEarly(i, gen_analysis))

RECURSIVE SumOfUsage(_)
SumOfUsage(calls) ==
    IF calls = << >> THEN 0
    ELSE (IF Head(calls).ok THEN Head(calls).usage ELSE 0)
         + SumOfUsage(Tail(calls))

Returned == gpc = Len(SectionDescriptions) + 2

\* the sections appended so far are those of the first steps, in the fixed
\* order: "" for a step that returns early, otherwise the content or the
\* placeholder of the step's own call; the calls made are those of the steps
\* run, in order, whatever the outcome of the earlier ones
SectionsInOrder ==
    /\ Len(sections) = (IF Returned THEN gpc - 2 ELSE gpc - 1)
    /\ \A i \in 1..Len(sections) :
          IF ReturnsEarly(i, gen_analysis) THEN sections[i] = EmptyString
          ELSE sections[i].description = SectionDescriptions[i]
    /\ \E calling \in {CallingSections(Len(sections))} :
          /\ Len(api_calls) = Len(calling)
          /\ \A k \in 1..Len(calling) :
                /\ api_calls[k].description = SectionDescriptions[calling[k]]
                /\ sections[calling[k]] =
                     (IF api_calls[k].ok
                      THEN Generated(api_calls[k].description)
                      ELSE Placeholder(api_calls[k].description))

TokensAreSumOfUsage == total_tokens = SumOfUsage(api_calls)

DocumentReturned ==
    Returned => documentation = <<NonEmpty(sections)>>

\* a failed call leaves total_tokens as it is, and no step lowers it
TokensStep ==
    /\ total_tokens' >= total_tokens
    /\ (/\ Len(api_calls') = Len(api_calls) + 1
        /\ ~api_calls'[Len(api_calls')].ok) => total_tokens' = total_tokens

\* C17: generate_documentation runs the section steps in the fixed order
\* overview, architecture, installation, usage, API reference,
\* configuration, development and always returns a document; a failed API
\* call is replaced by the error placeholder of its section, does not
\* prevent the later calls and leaves total_tokens unchanged; total_tokens
\* is the sum of the usage of the successful calls and never decreases.
C17_OrderedSectionsAndTokens ==
    /\ [](SectionsInOrder /\ TokensAreSumOfUsage /\ DocumentReturned)
    /\ [][TokensStep]_vars
    /\ <>Returned

\* a document returned after a failed call that was followed by a successful
\* one
C17_Witness ==
    /\ Returned
    /\ \E j, k \in 1..Len(api_calls) :
          j < k /\ ~api_calls[j].ok /\ api_calls[k].ok
    /\ total_tokens > 0
    /\ \E i \in 1..Len(sections) : sections[i] = EmptyString

====
